---- MODULE Spec2Model ----
(***************************************************************************)
(* granary: conversions between ActivityStreams 1 objects, microformats2   *)
(* JSON/HTML (microformats2.py) and Nostr events (nostr.py).               *)
(*                                                                         *)
(* Representation of Python values:                                        *)
(*   str            a TLA+ string; \o, Len and SubSeq act on it            *)
(*   None           the string "None" where a str is expected (this is     *)
(*                  what '%s' % None and f'{None}' render); no input of    *)
(*                  the model is the four-letter text None                 *)
(*   dict           a function on a set of strings (a record); the event   *)
(*                  handed to id_for is a sequence of <<key, value>> pairs *)
(*                  in insertion order, as a Python dict keeps its items   *)
(*   list           a sequence                                             *)
(*   raise          a dict with the single key "error"                     *)
(* A value that the code tells apart with isinstance carries its type: a   *)
(* microformats2 property value that is a str is [str |-> s] (a dict is    *)
(* the record itself), and an ActivityStreams `object` that is a list is   *)
(* [list |-> <<...>>] (a single object is the record itself).              *)
(***************************************************************************)
EXTENDS Integers, Sequences, FiniteSets, TLC

VARIABLES
  event,     \* the event dict a caller is building, <<key, value>> pairs
  called,    \* the items of `event` when id_for was last called on it
  idOut,     \* what that call returned
  as1In,     \* the argument of the last from_as1 call
  evOut,     \* ... and its result
  evIn,      \* the argument of the last to_as1 call
  as1Out,    \* ... and its result
  mf2In,     \* the argument of the last json_to_object call
  objOut,    \* ... and its result
  mf2pc,     \* where the caller of json_to_object is: idle, parsed, decoded
  parsed,    \* what the parser gave the last html_to_activities call
  batchOut,  \* ... and what the call returned or raised
  asObj,     \* the object a caller of object_to_json holds
  asBuilt,   \* ... as the caller built it
  itemsOut,  \* what the calls of object_to_json on it returned, in order
  mf2Item,   \* the item a caller of json_to_html holds
  mf2Built,  \* ... as the caller got it
  htmlOut,   \* what the calls of json_to_html on it returned, in order
  objBack,   \* what json_to_object returned for the item of the first call
  rendered,  \* what render_content returned for the object, and its argument
  toot,      \* the argument of the last create or preview_create call
  previewing,\* ... whether it was preview_create
  requests,  \* ... the requests it handed to the transport, in order
  answered,  \* ... what the transport answered to them, in order
  created    \* ... and what it returned or raised

nostrVars == <<event, called, idOut, as1In, evOut, evIn, as1Out>>
mf2Vars == <<mf2In, objOut, mf2pc, parsed, batchOut>>
htmlVars == <<asObj, asBuilt, itemsOut, mf2Item, mf2Built, htmlOut, objBack,
              rendered>>
mastoVars == <<toot, previewing, requests, answered, created>>
vars == <<nostrVars, mf2Vars, htmlVars, mastoVars>>

None == "None"
NoCall == "no call"
AssertionError == "AssertionError"
AttributeError == [error |-> "AttributeError"]

(***************************************************************************)
(* Python dict helpers on records.                                         *)
(***************************************************************************)
EmptyDict == <<>>

Has(d, k) == k \in DOMAIN d

Get(d, k, default) == IF k \in DOMAIN d THEN d[k] ELSE default

Put(d, k, v) == [x \in (DOMAIN d) \cup {k} |-> IF x = k THEN v ELSE d[x]]

Without(d, ks) == [x \in (DOMAIN d) \ ks |-> d[x]]

Update(d, e) == [x \in (DOMAIN d) \cup (DOMAIN e) |-> IF x \in DOMAIN e THEN e[x] ELSE d[x]]

RECURSIVE SeqFilterNull(_)
\* a list of strings without its None and '' elements
SeqFilterNull(s) ==
  IF s = <<>> THEN <<>>
  ELSE IF Head(s) \in {None, ""} THEN SeqFilterNull(Tail(s))
       ELSE <<Head(s)>> \o SeqFilterNull(Tail(s))

startswith(s, p) == Len(s) >= Len(p) /\ SubSeq(s, 1, Len(p)) = p

removeprefix(s, p) == IF startswith(s, p) THEN SubSeq(s, Len(p) + 1, Len(s)) ELSE s

(***************************************************************************)
(* Insertion-ordered dict: a sequence of <<key, value>> pairs.             *)
(***************************************************************************)
keys(d) == {d[i][1] : i \in DOMAIN d}

getitem(d, k) == d[CHOOSE i \in DOMAIN d : d[i][1] = k][2]

setitem(d, k, v) ==
  IF k \in keys(d)
  THEN [i \in DOMAIN d |-> IF d[i][1] = k THEN <<k, v>> ELSE d[i]]
  ELSE Append(d, <<k, v>>)

setdefault(d, k, v) == IF k \in keys(d) THEN d ELSE Append(d, <<k, v>>)

values(d) == [i \in DOMAIN d |-> d[i][2]]

(***************************************************************************)
(* nostr.py: id_for                                                        *)
(***************************************************************************)
EventKeys == {"content", "created_at", "kind", "pubkey", "tags"}

\* json_dumps of a list: a deterministic rendering of the elements in order
json_dumps(v) == ToString(v)

\* sha256(...).hexdigest(): an uninterpreted injective function of the bytes
sha256_hexdigest(bytes) == "sha256(" \o bytes \o ")"

\* the array id_for serializes, lines 60-67
canonical_insertion_order(e) == <<0>> \o values(e)

canonical(e) ==
  <<0, getitem(e, "pubkey"), getitem(e, "created_at"), getitem(e, "kind"),
    getitem(e, "tags"), getitem(e, "content")>>

\* the event as id_for leaves it: event.setdefault('tags', [])
id_for_event(e) == setdefault(e, "tags", <<>>)

id_for_strict(e) ==
  IF keys(e) # EventKeys THEN AssertionError
  ELSE sha256_hexdigest(json_dumps(canonical(e)))

id_for(e) ==
  IF keys(id_for_event(e)) # EventKeys THEN AssertionError
  ELSE sha256_hexdigest(json_dumps(canonical(id_for_event(e))))

(***************************************************************************)
(* util.trim_nulls: drops None, '', [] and {} from dicts and lists,        *)
(* recursively.  `types` names the Python type of each key's value.        *)
(***************************************************************************)
RECURSIVE TrimTags(_)
\* a list of lists of strings
TrimTags(tags) ==
  IF tags = <<>> THEN <<>>
  ELSE LET t == SeqFilterNull(Head(tags))
       IN IF t = <<>> THEN TrimTags(Tail(tags)) ELSE <<t>> \o TrimTags(Tail(tags))

TrimValue(v, type) ==
  CASE type = "str" -> v
    [] type = "int" -> v
    [] type = "strlist" -> SeqFilterNull(v)
    [] type = "taglist" -> TrimTags(v)
    [] OTHER -> v   \* a dict or list the callee already trimmed

IsNullValue(v, type) ==
  CASE type = "str" -> v \in {None, ""}
    [] type = "int" -> FALSE
    [] OTHER -> v = <<>>

trim_nulls(d, types) ==
  LET trimmed == [k \in DOMAIN d |-> TrimValue(d[k], types[k])]
      kept == {k \in DOMAIN d : ~IsNullValue(trimmed[k], types[k])}
  IN [k \in kept |-> trimmed[k]]

(***************************************************************************)
(* as1.py helpers used by nostr.py                                         *)
(***************************************************************************)
ACTOR_TYPES == {"application", "group", "organization", "person", "service"}

Truthy(s) == s \notin {None, ""}

object_type(obj) ==
  LET type == Get(obj, "objectType", None)
  IN IF Truthy(type) /\ type # "activity" THEN type ELSE Get(obj, "verb", None)

get_object(obj, field) == IF obj = EmptyDict THEN EmptyDict ELSE Get(obj, field, EmptyDict)

get_owner(obj) ==
  LET author == Get(get_object(obj, "author"), "id", None)
      actor == Get(get_object(obj, "actor"), "id", None)
  IN IF Truthy(author) THEN author
     ELSE IF Truthy(actor) THEN actor
     ELSE IF Get(obj, "objectType", None) \in ACTOR_TYPES THEN Get(obj, "id", None)
     ELSE None

object_urls(obj) ==
  SeqFilterNull(<<Get(obj, "url", None)>> \o Get(obj, "urls", <<>>))

(***************************************************************************)
(* Timestamps: util.parse_iso8601(...).timestamp() and                     *)
(* datetime.fromtimestamp(...).isoformat(), on the instants of the model.  *)
(***************************************************************************)
Instants == {[iso |-> "2023-11-14T22:13:20", ts |-> 1700000000]}

parse_iso8601_timestamp(published) == (CHOOSE i \in Instants : i.iso = published).ts

fromtimestamp_isoformat(created_at) == (CHOOSE i \in Instants : i.ts = created_at).iso

(***************************************************************************)
(* nostr.py: id_from_as1                                                   *)
(***************************************************************************)
BECH32_PREFIXES == <<"naddr", "nevent", "note", "nprofile", "npub", "nrelay", "nsec">>

RECURSIVE RemovePrefixes(_, _)
RemovePrefixes(id, prefixes) ==
  IF prefixes = <<>> THEN id
  ELSE RemovePrefixes(removeprefix(id, Head(prefixes)), Tail(prefixes))

id_from_as1(id) ==
  IF ~Truthy(id) THEN id
  ELSE RemovePrefixes(removeprefix(id, "nostr:"), BECH32_PREFIXES)

(***************************************************************************)
(* JSON text of a dict: json_dumps(d, sort_keys=True), over the keys an    *)
(* event or a profile can hold in sorted order, and json_loads over the    *)
(* documents `docs` that the text can hold.                                *)
(***************************************************************************)
json_dumps_dict(d) ==
  LET sorted == SelectSeq(<<"about", "content", "created_at", "id", "kind", "name",
                            "nip05", "picture", "pubkey", "tags">>,
                          LAMBDA k : k \in DOMAIN d)
      RECURSIVE Pairs(_)
      Pairs(ks) ==
        IF ks = <<>> THEN ""
        ELSE ToString(ks[1]) \o ": " \o ToString(d[ks[1]])
             \o (IF Len(ks) > 1 THEN ", " ELSE "") \o Pairs(Tail(ks))
  IN "{" \o Pairs(sorted) \o "}"

json_loads(s, docs) == CHOOSE d \in docs : json_dumps_dict(d) = s

(***************************************************************************)
(* nostr.py: from_as1                                                      *)
(***************************************************************************)
PLATFORMS ==
  <<[platform |-> "github", base_url |-> "https://github.com/"],
    [platform |-> "telegram", base_url |-> "https://t.me/"],
    [platform |-> "twitter", base_url |-> "https://twitter.com/"],
    [platform |-> "mastodon", base_url |-> "https://"]>>

Contains(s, c) == \E i \in 1..Len(s) : SubSeq(s, i, i) = c

RECURSIVE IdentityTagsOf(_, _)
\* lines 125-129, for one url
IdentityTagsOf(url, platforms) ==
  IF platforms = <<>> THEN <<>>
  ELSE LET p == Head(platforms)
       IN (IF p.platform # "mastodon" /\ startswith(url, p.base_url)
           THEN <<<<"i", p.platform \o ":" \o removeprefix(url, p.base_url), "-">>>>
           ELSE <<>>)
          \o IdentityTagsOf(url, Tail(platforms))

RECURSIVE IdentityTags(_)
\* lines 124-129
IdentityTags(urls) ==
  IF urls = <<>> THEN <<>>
  ELSE IdentityTagsOf(Head(urls), PLATFORMS) \o IdentityTags(Tail(urls))

EventTypes ==
  [id |-> "str", pubkey |-> "str", tags |-> "taglist", created_at |-> "int",
   kind |-> "int", content |-> "str", error |-> "str"]

IsError(d) == Has(d, "error")

RECURSIVE FirstTruthy(_)
\* a or b or c
FirstTruthy(s) ==
  IF Len(s) = 1 THEN Head(s)
  ELSE IF Truthy(Head(s)) THEN Head(s) ELSE FirstTruthy(Tail(s))

RECURSIVE FieldTags(_, _)
\* lines 149-152
FieldTags(obj, fields) ==
  IF fields = <<>> THEN <<>>
  ELSE (IF Truthy(Get(obj, Head(fields), None))
        THEN <<<<Head(fields), obj[Head(fields)]>>>> ELSE <<>>)
       \o FieldTags(obj, Tail(fields))

RECURSIVE from_as1(_)
from_as1(obj) ==
  LET type == object_type(obj)
      published == Get(obj, "published", None)
      event0 == [id |-> id_from_as1(Get(obj, "id", None)),
                 pubkey |-> id_from_as1(get_owner(obj)),
                 tags |-> <<>>]
      ev == IF Truthy(published)
            THEN Put(event0, "created_at", parse_iso8601_timestamp(published))
            ELSE event0
  IN
  IF type \in ACTOR_TYPES THEN
    LET username == Get(obj, "username", "")
        nip05 == IF ~Contains(username, "@") THEN "_@" \o username ELSE username
    IN trim_nulls(
         Update(ev, [kind |-> 0,
                     pubkey |-> ev.id,
                     content |-> json_dumps_dict(
                       [name |-> Get(obj, "displayName", None),
                        about |-> Get(obj, "description", None),
                        picture |-> Get(Get(obj, "image", EmptyDict), "url", None),
                        nip05 |-> nip05]),
                     tags |-> IdentityTags(object_urls(obj))]),
         EventTypes)
  ELSE IF type \in {"article", "note"} THEN
    LET in_reply_to == get_object(obj, "inReplyTo")
        author == Get(get_object(in_reply_to, "author"), "id", None)
        replyTags ==
          IF in_reply_to # EmptyDict
          THEN <<<<"e", id_from_as1(Get(in_reply_to, "id", None)), "TODO relay", "reply">>>>
          ELSE <<>>
        publishedTags ==
          IF type = "article" /\ Truthy(published)
          THEN <<<<"published_at", ToString(ev.created_at)>>>> ELSE <<>>
    IN IF in_reply_to # EmptyDict /\ Truthy(author)
       THEN [error |-> "UnboundLocalError"]   \* line 144 reads orig_event
       ELSE trim_nulls(
              Update(ev, [kind |-> IF type = "note" THEN 1 ELSE 30023,
                          content |-> FirstTruthy(<<Get(obj, "content", None),
                                                    Get(obj, "summary", None),
                                                    Get(obj, "displayName", None)>>),
                          tags |-> replyTags \o publishedTags
                                   \o FieldTags(obj, <<"title", "summary">>)]),
              EventTypes)
  ELSE IF type = "share" THEN
    LET inner_obj == get_object(obj, "object")
        orig_event == from_as1(inner_obj)
    IN IF inner_obj = EmptyDict THEN trim_nulls(Put(ev, "kind", 6), EventTypes)
       ELSE IF IsError(orig_event) THEN orig_event
       ELSE trim_nulls(
              Update(ev, [kind |-> 6,
                          content |-> json_dumps_dict(orig_event),
                          tags |-> << <<"e", Get(orig_event, "id", None), "TODO relay", "mention">>,
                                      <<"p", Get(orig_event, "pubkey", None)>> >>]),
              EventTypes)
  ELSE IF type \in {"like", "dislike", "react"} THEN
    LET liked == Get(get_object(obj, "object"), "id", None)
    IN trim_nulls(
         Update(ev, [kind |-> 7,
                     content |-> IF type = "like" THEN "+"
                                 ELSE IF type = "dislike" THEN "-"
                                 ELSE Get(obj, "content", None),
                     tags |-> <<<<"e", id_from_as1(liked)>>>>]),
         EventTypes)
  ELSE trim_nulls(ev, EventTypes)

(***************************************************************************)
(* nostr.py: to_as1                                                        *)
(***************************************************************************)
\* the documents a profile event's or a quote repost's content can hold
ProfileDocs ==
  [name : {None, "Alice"}, about : {None}, picture : {None}, nip05 : {"_@", "_@alice.com", "a@alice.com"}]

QuotedObjects ==
  {[objectType |-> "note", id |-> "nostr:noteab", content |-> "hi",
    author |-> [id |-> "nostr:npubcd"]],
   [objectType |-> "note", content |-> "hi"]}

JsonDocs == ProfileDocs \cup {from_as1(o) : o \in QuotedObjects} \cup {EmptyDict}

CountOf(s, c) == Cardinality({i \in 1..Len(s) : SubSeq(s, i, i) = c})

IndexOf(s, c) == CHOOSE i \in 1..Len(s) :
  SubSeq(s, i, i) = c /\ \A j \in 1..(i - 1) : SubSeq(s, j, j) # c

Last(s) == s[Len(s)]

RECURSIVE ProfileUrls(_)
\* lines 210-215; platform, identity = tag[1].split(':')
ProfileUrls(tags) ==
  IF tags = <<>> THEN <<>>
  ELSE LET tag == Head(tags)
           platform == SubSeq(tag[2], 1, IndexOf(tag[2], ":") - 1)
           identity == SubSeq(tag[2], IndexOf(tag[2], ":") + 1, Len(tag[2]))
           known == {i \in DOMAIN PLATFORMS : PLATFORMS[i].platform = platform}
       IN (IF tag[1] = "i" /\ known # {}
           THEN <<PLATFORMS[CHOOSE i \in known : TRUE].base_url \o identity>>
           ELSE <<>>)
          \o ProfileUrls(Tail(tags))

\* a profile event whose 'i' tag does not split into two parts on ':' raises
SplitFails(tags) ==
  \E i \in DOMAIN tags : tags[i][1] = "i" /\ CountOf(tags[i][2], ":") # 1

RECURSIVE NoteFields(_, _)
\* lines 225-230: later tags overwrite earlier ones
NoteFields(obj, tags) ==
  IF tags = <<>> THEN obj
  ELSE LET tag == Head(tags)
       IN NoteFields(
            IF tag[1] = "e" /\ Last(tag) = "reply"
            THEN Put(obj, "inReplyTo", "nostr:note" \o tag[2])
            ELSE IF tag[1] \in {"title", "summary"} THEN Put(obj, tag[1], tag[2])
            ELSE obj,
            Tail(tags))

RECURSIVE LastTagged(_, _, _)
\* the value of the last tag ['e', value, ...] that has the role, or None;
\* role None stands for any role
LastTagged(tags, role, found) ==
  IF tags = <<>> THEN found
  ELSE LastTagged(Tail(tags), role,
                  IF Head(tags)[1] = "e" /\ (role = None \/ Last(Head(tags)) = role)
                  THEN Head(tags)[2] ELSE found)

As1Types(objectIsDict) ==
  [id |-> "str", objectType |-> "str", verb |-> "str", displayName |-> "str",
   description |-> "str", image |-> "str", username |-> "str", urls |-> "strlist",
   author |-> "dict", content |-> "str", inReplyTo |-> "str", title |-> "str",
   summary |-> "str", published |-> "str", error |-> "str",
   object |-> IF objectIsDict THEN "dict" ELSE "str"]

WithPublished(ev, obj) ==
  LET created_at == Get(ev, "created_at", 0)
  IN IF created_at # 0 THEN Put(obj, "published", fromtimestamp_isoformat(created_at))
     ELSE obj

like_verb_plus_only(content) == IF content = "+" THEN "like" ELSE "react"

like_verb_always_react(content) == "react"

like_verb(content) ==
  IF content = "+" THEN "like" ELSE IF content = "-" THEN "dislike" ELSE "react"

\* a tag that holds its name only: reading tag[1] raises IndexError
ShortTag(tags, names) ==
  \E i \in DOMAIN tags : Len(tags[i]) = 1 /\ tags[i][1] \in names

RECURSIVE to_as1(_)
to_as1(ev) ==
  IF ev = EmptyDict THEN EmptyDict
  ELSE IF ~Has(ev, "kind") THEN [error |-> "KeyError"]
  ELSE
  LET kind == ev.kind
      id == Get(ev, "id", None)
      tags == Get(ev, "tags", <<>>)
      obj == [id |-> "nostr:nevent" \o id]
  IN
  IF kind = 0 THEN
    IF ~Has(ev, "pubkey") THEN [error |-> "KeyError"]
    ELSE IF ShortTag(tags, {"i"}) THEN [error |-> "IndexError"]
    ELSE IF SplitFails(tags) THEN [error |-> "ValueError"]
    ELSE
    LET content == json_loads(Get(ev, "content", None), JsonDocs)
    IN trim_nulls(WithPublished(ev,
         Update(obj, [objectType |-> "person",
                      id |-> "nostr:npub" \o ev.pubkey,
                      displayName |-> Get(content, "name", None),
                      description |-> Get(content, "about", None),
                      image |-> Get(content, "picture", None),
                      username |-> removeprefix(Get(content, "nip05", ""), "_@"),
                      urls |-> ProfileUrls(tags)])), As1Types(FALSE))
  ELSE IF kind \in {1, 30023} THEN
    IF ~Has(ev, "pubkey") THEN [error |-> "KeyError"]
    ELSE IF ShortTag(tags, {"title", "summary"}) THEN [error |-> "IndexError"]
    ELSE trim_nulls(WithPublished(ev,
           NoteFields(
             Update(obj, [objectType |-> IF kind = 1 THEN "note" ELSE "article",
                          id |-> "nostr:note" \o id,
                          author |-> [id |-> "nostr:npub" \o ev.pubkey],
                          content |-> Get(ev, "content", None)]),
             tags)), As1Types(FALSE))
  ELSE IF kind \in {6, 16} THEN
    LET mention == LastTagged(tags, "mention", None)
        content == IF Truthy(Get(ev, "content", None)) THEN ev.content ELSE ""
        quoted == to_as1(json_loads(content, JsonDocs))
        share == Update(obj, [objectType |-> "activity", verb |-> "share"])
    IN IF startswith(content, "{")
       THEN IF IsError(quoted) THEN quoted
            ELSE trim_nulls(WithPublished(ev, Put(share, "object", quoted)), As1Types(TRUE))
       ELSE trim_nulls(WithPublished(ev,
              IF mention # None THEN Put(share, "object", "nostr:note" \o mention)
              ELSE share), As1Types(FALSE))
  ELSE IF kind = 7 THEN
    IF ShortTag(tags, {"e"}) THEN [error |-> "IndexError"]
    ELSE
    LET content == Get(ev, "content", None)
        liked == LastTagged(tags, None, None)
        verb == like_verb(content)
        reaction == Update(obj, [objectType |-> "activity", verb |-> verb])
        withContent == IF verb = "react" THEN Put(reaction, "content", content)
                       ELSE reaction
    IN trim_nulls(WithPublished(ev,
         IF liked # None THEN Put(withContent, "object", "nostr:nevent" \o liked)
         ELSE withContent), As1Types(FALSE))
  ELSE trim_nulls(WithPublished(ev, obj), As1Types(FALSE))

(***************************************************************************)
(* Callers of the event codec.                                             *)
(***************************************************************************)
Targets ==
  {[id |-> "nostr:notecd"],
   [id |-> "nostr:notecd", author |-> [id |-> "nostr:npubab"]],
   [url |-> "https://example.com/post"]}

As1Actors ==
  {o \in [objectType : {"person"}, id : {"nostr:npubcd"}, displayName : {"Alice"},
          username : {"alice.com", "a@alice.com"},
          urls : {<<>>, <<"https://github.com/alice", "https://alice.com/">>}] : TRUE}

As1Posts ==
  {Update(base, extra) :
     base \in [objectType : {"note", "article"}, id : {"nostr:noteab"},
               author : {[id |-> "nostr:npubcd"]}, content : {"hi", ""}],
     extra \in {EmptyDict, [published |-> "2023-11-14T22:13:20"],
                [summary |-> "sum", title |-> "A title"]}
               \cup {[inReplyTo |-> t] : t \in Targets}}

As1Reactions ==
  {Update(base, extra) :
     base \in [objectType : {"activity"}, verb : {"like", "dislike", "react"},
               id : {"nostr:neventab"}, actor : {[id |-> "nostr:npubcd"]},
               object : Targets],
     extra \in {EmptyDict, [content |-> "+1"], [content |-> "+"], [content |-> "-"]}}

As1Shares ==
  {[objectType |-> "activity", verb |-> "share", id |-> "nostr:neventab",
    actor |-> [id |-> "nostr:npubcd"]]}
  \cup {[objectType |-> "activity", verb |-> "share", id |-> "nostr:neventab",
         actor |-> [id |-> "nostr:npubcd"], object |-> o] : o \in QuotedObjects}

As1Others ==
  {[objectType |-> "place", id |-> "ab"], [objectType |-> "note"],
   [objectType |-> "note", id |-> "cd", content |-> "hi",
    published |-> "2023-11-14T22:13:20"]}

As1Objects == As1Actors \cup As1Posts \cup As1Reactions \cup As1Shares \cup As1Others

EventTags(kind) ==
  CASE kind = 0 -> {<<>>, <<<<"i", "github:alice", "-">>>>, <<<<"i", "irc:alice", "-">>>>}
    [] kind \in {1, 30023} ->
         {<<>>, <<<<"e", "cd", "TODO relay", "reply">>>>,
          <<<<"title", "A title">>, <<"p", "ab">>>>}
    [] kind \in {6, 16} -> {<<>>, <<<<"e", "cd", "TODO relay", "mention">>, <<"p", "ab">>>>}
    [] OTHER -> {<<>>, <<<<"e", "cd">>>>}

EventContents(kind) ==
  CASE kind = 0 -> {json_dumps_dict(d) : d \in ProfileDocs}
    [] kind \in {6, 16} -> {""} \cup {json_dumps_dict(from_as1(o)) : o \in QuotedObjects}
    [] kind = 7 -> {"+", "-", "", "+1", "x"}
    [] OTHER -> {"hi", ""}

Kinds == {0, 1, 30023, 6, 16, 7, 2}

Events ==
  UNION {
    {[id |-> "ab", pubkey |-> "cd", created_at |-> ts, kind |-> kind,
      tags |-> tags, content |-> content] :
       ts \in {1700000000}, tags \in EventTags(kind), content \in EventContents(kind)}
    \cup {[pubkey |-> "cd", kind |-> kind, tags |-> tags] : tags \in EventTags(kind)}
    : kind \in Kinds \ {0}}
  \cup {[id |-> "ab", pubkey |-> "cd", created_at |-> 1700000000, kind |-> 0,
         tags |-> tags, content |-> content] :
          tags \in EventTags(0), content \in EventContents(0)}

\* The state keeps the latest call only: each call starts from fresh values.
NoEvent == event' = <<>> /\ called' = <<>> /\ idOut' = NoCall

NoFromAs1 == as1In' = EmptyDict /\ evOut' = EmptyDict

NoToAs1 == evIn' = EmptyDict /\ as1Out' = EmptyDict

\* no call is in progress and no event is being built
IdleNostr ==
  event = <<>> /\ idOut = NoCall /\ as1In = EmptyDict /\ evIn = EmptyDict

FromAs1(obj) ==
  /\ IdleNostr
  /\ as1In' = obj
  /\ evOut' = from_as1(obj)
  /\ NoEvent /\ NoToAs1
  /\ UNCHANGED <<mf2Vars, htmlVars, mastoVars>>

ToAs1(ev) ==
  /\ IdleNostr
  /\ evIn' = ev
  /\ as1Out' = to_as1(ev)
  /\ NoEvent /\ NoFromAs1
  /\ UNCHANGED <<mf2Vars, htmlVars, mastoVars>>

\* the caller decodes the event that from_as1 has just returned
ToAs1Back ==
  /\ as1In # EmptyDict /\ evIn = EmptyDict
  /\ ~IsError(evOut)
  /\ evIn' = evOut
  /\ as1Out' = to_as1(evOut)
  /\ UNCHANGED <<event, called, idOut, as1In, evOut>>
  /\ UNCHANGED <<mf2Vars, htmlVars, mastoVars>>

\* as1.get_object reads a target that is a string as {'id': target}: the
\* object to_as1 returned for `ev`, with the targets it wrote as strings in
\* the form from_as1 reads them
WithTargetObjects(ev, obj) ==
  LET quoted == ev.kind \in {6, 16} /\ startswith(Get(ev, "content", ""), "{")
  IN [k \in DOMAIN obj |->
        IF k = "inReplyTo" \/ (k = "object" /\ ~quoted) THEN [id |-> obj[k]]
        ELSE obj[k]]

\* the caller encodes the object that to_as1 has just returned for an event
\* that has an id
FromAs1Back ==
  /\ evIn # EmptyDict /\ as1In = EmptyDict
  /\ Has(evIn, "id")
  /\ ~IsError(as1Out)
  /\ as1In' = WithTargetObjects(evIn, as1Out)
  /\ evOut' = from_as1(as1In')
  /\ UNCHANGED <<event, called, idOut, evIn, as1Out>>
  /\ UNCHANGED <<mf2Vars, htmlVars, mastoVars>>

\* the caller drops the result of a conversion
ReturnNostr ==
  /\ as1In # EmptyDict \/ evIn # EmptyDict
  /\ NoEvent /\ NoFromAs1 /\ NoToAs1
  /\ UNCHANGED <<mf2Vars, htmlVars, mastoVars>>

(***************************************************************************)
(* microformats2.py: property values                                       *)
(***************************************************************************)
S(s) == [str |-> s]

\* isinstance(val, basestring); None is not a dict either
IsStr(val) == Has(val, "str")

\* isinstance(val, dict)
IsDict(val) == ~IsStr(val)

\* bool(val)
TruthyVal(val) == IF IsStr(val) THEN Truthy(val.str) ELSE val # EmptyDict

\* d.get(k), whose default is None
GetVal(d, k) == Get(d, k, S(None))

\* lines 648-669: the first elements of the values of a dict of lists, '' for an empty list
first_props(props) ==
  [k \in DOMAIN props |-> IF props[k] = <<>> THEN S("") ELSE props[k][1]]

\* lines 78-87
get_html(val) ==
  IF IsDict(val)
  THEN IF Truthy(Get(val, "html", None)) THEN val.html ELSE Get(val, "value", None)
  ELSE val.str

\* lines 90-92
get_text(val) == IF IsDict(val) THEN Get(val, "value", None) ELSE val.str

RECURSIVE get_string_urls(_)
\* lines 53-75
get_string_urls(objs) ==
  IF objs = <<>> THEN <<>>
  ELSE LET item == Head(objs)
           itemtype == SelectSeq(Get(item, "type", <<>>), LAMBDA x : startswith(x, "h-"))
           inner == IF Get(item, "properties", EmptyDict) # EmptyDict
                    THEN item.properties ELSE item
       IN (IF IsStr(item) THEN <<item.str>>
           ELSE IF itemtype # <<>> THEN get_string_urls(Get(inner, "url", <<>>))
           ELSE <<>>)
          \o get_string_urls(Tail(objs))

\* urlparse.urlparse(url).netloc is not empty
HasNetloc(url) ==
  \E i \in 1..(Len(url) - 2) :
    /\ SubSeq(url, i, i + 1) = "//"
    /\ i = 1 \/ (SubSeq(url, i - 1, i - 1) = ":" /\ ~Contains(SubSeq(url, 1, i - 1), "/"))
    /\ SubSeq(url, i + 2, i + 2) # "/"

(***************************************************************************)
(* util.trim_nulls on the objects json_to_object builds.                   *)
(***************************************************************************)
TrimStrDict(d) == [k \in {x \in DOMAIN d : Truthy(d[x])} |-> d[k]]

IsList(val) == Has(val, "list")

ObjectStrKeys ==
  {"id", "objectType", "verb", "published", "updated", "displayName", "summary",
   "content", "url"}

RECURSIVE trim_nulls_object(_)
RECURSIVE TrimAll(_)
\* the trimmed elements of a list of objects, without those that trim to {}
TrimAll(objs) ==
  IF objs = <<>> THEN <<>>
  ELSE LET t == trim_nulls_object(Head(objs))
       IN IF t = EmptyDict THEN TrimAll(Tail(objs)) ELSE <<t>> \o TrimAll(Tail(objs))

\* trim_nulls of the dict at lines 267-299, by the type of each key's value:
\* str; dict (location, author, actor, a single object); {'url': str} (image);
\* {'items': list} (replies); list of dicts (inReplyTo, a list of objects)
TrimObjectValue(k, v) ==
  IF k \in ObjectStrKeys THEN v
  ELSE IF k = "image" THEN TrimStrDict(v)
  ELSE IF k = "replies" THEN
    (IF TrimAll(v.items) = <<>> THEN EmptyDict ELSE [items |-> TrimAll(v.items)])
  ELSE IF k = "inReplyTo" THEN TrimAll(v)
  ELSE IF k = "object" /\ IsList(v) THEN [list |-> TrimAll(v.list)]
  ELSE trim_nulls_object(v)

IsNullObjectValue(k, v) ==
  IF k \in ObjectStrKeys THEN ~Truthy(v)
  ELSE IF k = "object" /\ IsList(v) THEN v.list = <<>>
  ELSE v = <<>>

trim_nulls_object(obj) ==
  LET trimmed == [k \in DOMAIN obj |-> TrimObjectValue(k, obj[k])]
      kept == {k \in DOMAIN obj : ~IsNullObjectValue(k, trimmed[k])}
  IN [k \in kept |-> trimmed[k]]

(***************************************************************************)
(* microformats2.py: json_to_object                                        *)
(***************************************************************************)
\* lines 229-237; the verb of h-as-rsvp is rsvp_verb
types_map ==
  <<[mf2_type |-> "h-as-rsvp", as_type |-> "activity", as_verb |-> "rsvp"],
    [mf2_type |-> "h-as-share", as_type |-> "activity", as_verb |-> "share"],
    [mf2_type |-> "h-as-like", as_type |-> "activity", as_verb |-> "like"],
    [mf2_type |-> "h-as-comment", as_type |-> "comment", as_verb |-> None],
    [mf2_type |-> "h-as-reply", as_type |-> "comment", as_verb |-> None],
    [mf2_type |-> "h-as-location", as_type |-> "place", as_verb |-> None],
    [mf2_type |-> "h-card", as_type |-> "person", as_verb |-> None]>>

prop_types_map_like_first ==
  <<[p |-> "rsvp", as_type |-> "activity", as_verb |-> "rsvp"],
    [p |-> "invitee", as_type |-> "activity", as_verb |-> "invite"],
    [p |-> "like-of", as_type |-> "activity", as_verb |-> "like"],
    [p |-> "repost-of", as_type |-> "activity", as_verb |-> "share"],
    [p |-> "in-reply-to", as_type |-> "comment", as_verb |-> None]>>

\* lines 241-247; the verb of rsvp is rsvp_verb
prop_types_map ==
  <<[p |-> "rsvp", as_type |-> "activity", as_verb |-> "rsvp"],
    [p |-> "invitee", as_type |-> "activity", as_verb |-> "invite"],
    [p |-> "repost-of", as_type |-> "activity", as_verb |-> "share"],
    [p |-> "like-of", as_type |-> "activity", as_verb |-> "like"],
    [p |-> "in-reply-to", as_type |-> "comment", as_verb |-> None]>>

InSeq(x, s) == \E i \in DOMAIN s : s[i] = x

\* the first entry of the table among those at the indexes `hits`, or <<>>
FirstMatch(table, hits) ==
  IF hits = {} THEN <<>>
  ELSE table[CHOOSE i \in hits : \A j \in hits : i <= j]

\* lines 249-259: the (as_type, as_verb) of an item
resolve_type(types, props, rsvp_verb) ==
  LET byType == FirstMatch(types_map,
                           {i \in DOMAIN types_map : InSeq(types_map[i].mf2_type, types)})
      byProp == FirstMatch(prop_types_map,
                           {i \in DOMAIN prop_types_map :
                              prop_types_map[i].p \in DOMAIN props})
      found == IF byType # <<>> THEN byType ELSE byProp
  IN IF found # <<>>
     THEN [as_type |-> found.as_type,
           as_verb |-> IF found.as_verb = "rsvp" THEN rsvp_verb ELSE found.as_verb]
     ELSE [as_type |-> IF InSeq("h-as-note", types) THEN "note" ELSE "article",
           as_verb |-> None]

\* line 286
TargetFields == <<"like", "like-of", "repost", "repost-of", "in-reply-to", "invitee">>

RECURSIVE ChainFrom(_, _)
\* itertools.chain.from_iterable(props.get(field, []) for field in fields)
ChainFrom(props, fields) ==
  IF fields = <<>> THEN <<>>
  ELSE Get(props, Head(fields), <<>>) \o ChainFrom(props, Tail(fields))

KeepAll(targets, objects) == objects \o targets

RECURSIVE Dedupe(_, _)
\* lines 283-290, on the decoded targets
Dedupe(targets, objects) ==
  IF targets = <<>> THEN objects
  ELSE Dedupe(Tail(targets),
              IF InSeq(Head(targets), objects) THEN objects
              ELSE Append(objects, Head(targets)))


RECURSIVE json_to_object(_)
RECURSIVE DecodeAll(_)
\* [json_to_object(c) for c in items]
DecodeAll(items) ==
  IF items = <<>> THEN <<>>
  ELSE <<json_to_object(Head(items))>> \o DecodeAll(Tail(items))

RECURSIVE DecodeTargets(_)
\* line 287, for each target
DecodeTargets(targets) ==
  IF targets = <<>> THEN <<>>
  ELSE <<IF IsDict(Head(targets)) THEN json_to_object(Head(targets))
         ELSE [url |-> Head(targets).str]>>
       \o DecodeTargets(Tail(targets))

RECURSIVE UrlObjects(_)
\* [{'url': url} for url in urls]
UrlObjects(urls) ==
  IF urls = <<>> THEN <<>> ELSE <<[url |-> Head(urls)]>> \o UrlObjects(Tail(urls))

\* lines 209-301.  A `properties` that is a list and not a dict raises: a
\* list has no items() (line 661) and no get() (line 262).
json_to_object(mf2) ==
  IF ~TruthyVal(mf2) \/ ~IsDict(mf2) THEN EmptyDict
  ELSE IF IsList(Get(mf2, "properties", EmptyDict)) THEN AttributeError
  ELSE
  LET props == Get(mf2, "properties", EmptyDict)
      prop == first_props(props)
      rsvp == GetVal(prop, "rsvp")
      rsvp_verb == IF TruthyVal(rsvp) THEN "rsvp-" \o rsvp.str ELSE None
      author == json_to_object(GetVal(prop, "author"))
      types == Get(mf2, "type", <<>>)
      as == resolve_type(types, props, rsvp_verb)
      photos == SelectSeq(get_string_urls(Get(props, "photo", <<>>)), HasNetloc)
      urls == get_string_urls(Get(props, "url", <<>>))
      obj == [id |-> GetVal(prop, "uid").str,
              objectType |-> as.as_type,
              verb |-> as.as_verb,
              published |-> Get(prop, "published", S("")).str,
              updated |-> Get(prop, "updated", S("")).str,
              displayName |-> get_text(GetVal(prop, "name")),
              summary |-> get_text(GetVal(prop, "summary")),
              content |-> get_html(GetVal(prop, "content")),
              url |-> IF urls # <<>> THEN urls[1] ELSE None,
              image |-> [url |-> IF photos # <<>> THEN photos[1] ELSE None],
              location |-> json_to_object(GetVal(prop, "location")),
              replies |-> [items |-> DecodeAll(Get(props, "comment", <<>>))]]
      objects == Dedupe(DecodeTargets(ChainFrom(props, TargetFields)), <<>>)
  IN trim_nulls_object(
       IF as.as_type = "activity"
       THEN Update(obj, [object |-> IF Len(objects) = 1 THEN objects[1]
                                    ELSE [list |-> objects],
                         actor |-> author])
       ELSE Update(obj, [inReplyTo |->
                           UrlObjects(get_string_urls(Get(props, "in-reply-to", <<>>))),
                         author |-> author]))

(***************************************************************************)
(* microformats2.py: html_to_activities, from the parser's result on.  The *)
(* items nested in an item are well-formed.                                *)
(***************************************************************************)
RECURSIVE find_first_entry_depth_first(_, _)
\* a search that visits the children of an item before the items after it
find_first_entry_depth_first(queue, types) ==
  IF queue = <<>> THEN EmptyDict
  ELSE LET item == Head(queue)
       IN IF \E i \in DOMAIN types : InSeq(types[i], item.type) THEN item
          ELSE find_first_entry_depth_first(
                 Get(item, "children", <<>>) \o Tail(queue), types)

RECURSIVE find_first_entry(_, _)
\* lines 790-801, on the queue; None is {}
find_first_entry(queue, types) ==
  IF queue = <<>> THEN EmptyDict
  ELSE LET item == Head(queue)
       IN IF \E i \in DOMAIN types : InSeq(types[i], item.type) THEN item
          ELSE find_first_entry(Tail(queue) \o Get(item, "children", <<>>), types)

\* lines 313-316: the list comprehension raises what json_to_object raises
html_to_activities(doc) ==
  LET hfeed == find_first_entry(doc.items, <<"h-feed">>)
      items == IF hfeed # EmptyDict THEN Get(hfeed, "children", <<>>)
               ELSE Get(doc, "items", <<>>)
      decoded == [i \in DOMAIN items |-> [object |-> json_to_object(items[i])]]
  IN IF \E i \in DOMAIN items : IsError(decoded[i].object) THEN AttributeError
     ELSE [activities |-> decoded]

(***************************************************************************)
(* Strings: str.replace, str.join, slices, and the xml.sax.saxutils        *)
(* functions the module calls.                                             *)
(***************************************************************************)
RECURSIVE replace(_, _, _)
\* s.replace(old, new), old not empty
replace(s, old, new) ==
  LET found == {i \in 1..(Len(s) - Len(old) + 1) : SubSeq(s, i, i + Len(old) - 1) = old}
      first == CHOOSE i \in found : \A j \in found : i <= j
  IN IF found = {} THEN s
     ELSE SubSeq(s, 1, first - 1) \o new
          \o replace(SubSeq(s, first + Len(old), Len(s)), old, new)

RECURSIVE join(_, _)
\* sep.join(strs)
join(sep, strs) ==
  IF strs = <<>> THEN ""
  ELSE IF Len(strs) = 1 THEN strs[1]
  ELSE strs[1] \o sep \o join(sep, Tail(strs))

\* s[from:to] for 0 <= from
slice(s, from, to) == SubSeq(s, from + 1, IF to < Len(s) THEN to ELSE Len(s))

\* xml.sax.saxutils.unescape(data)
unescape(data) == replace(replace(replace(data, "&lt;", "<"), "&gt;", ">"), "&amp;", "&")

\* xml.sax.saxutils.escape(data, entities)
escape(data) ==
  replace(replace(replace(replace(replace(replace(data,
    "&", "&amp;"), ">", "&gt;"), "<", "&lt;"), "\n", "&#10;"), "\r", "&#13;"), "\t", "&#9;")

\* xml.sax.saxutils.quoteattr(data)
quoteattr(data) ==
  LET escaped == escape(data)
  IN IF Contains(escaped, "\"")
     THEN IF Contains(escaped, "'")
          THEN "\"" \o replace(escaped, "\"", "&quot;") \o "\""
          ELSE "'" \o escaped \o "'"
     ELSE "\"" \o escaped \o "\""

\* '%s' % val
Format(val) == IF IsStr(val) THEN val.str ELSE ToString(val)

(***************************************************************************)
(* microformats2.py: HTML of single elements                               *)
(***************************************************************************)
\* lines 719-730
img(src, cls, alt) ==
  "<img class=\"" \o cls \o "\" src=\"" \o src \o "\" alt="
    \o quoteattr(IF Truthy(alt) THEN alt ELSE "") \o " />"

\* lines 733-753
vid(src, poster, cls) ==
  "<video class=\"" \o cls \o "\" src=\"" \o src \o "\""
    \o (IF Truthy(poster) THEN " poster=\"" \o poster \o "\"" ELSE "")
    \o " controls>"
    \o "Your browser does not support the video tag. "
    \o "<a href=\"" \o src \o "\">Click here to view directly"
    \o (IF Truthy(poster) THEN "<img src=\"" \o poster \o "\"/>" ELSE "")
    \o "</a></video>"

\* lines 756-772; a classname that is not given is None
maybe_linked(text, url, linked_classname, unlinked_classname) ==
  IF Truthy(url)
  THEN "<a" \o (IF Truthy(linked_classname)
                THEN " class=\"" \o linked_classname \o "\"" ELSE "")
            \o " href=\"" \o url \o "\">" \o text \o "</a>"
  ELSE IF Truthy(unlinked_classname)
       THEN "<span class=\"" \o unlinked_classname \o "\">" \o text \o "</span>"
       ELSE text

\* lines 775-787
maybe_datetime(str, classname) ==
  IF Truthy(str)
  THEN "<time class=\"" \o classname \o "\" datetime=\"" \o str \o "\">" \o str \o "</time>"
  ELSE ""

RECURSIVE ExtraUrls(_)
\* line 713, for each of the extra urls
ExtraUrls(urls) ==
  IF urls = <<>> THEN <<>>
  ELSE <<maybe_linked("", Format(Head(urls)), "u-url", None)>> \o ExtraUrls(Tail(urls))

\* lines 693-716
maybe_linked_name(props) ==
  LET prop == first_props(props)
      name == GetVal(prop, "name")
      url == GetVal(prop, "url")
      html == IF TruthyVal(name)
              THEN maybe_linked(Format(name), Format(url), "p-name u-url", "p-name")
              ELSE maybe_linked(IF TruthyVal(url) THEN Format(url) ELSE "",
                                Format(url), "u-url", None)
      urls == Get(props, "url", <<>>)
      extra_urls == IF urls = <<>> THEN <<>> ELSE Tail(urls)
  IN IF extra_urls # <<>>
     THEN html \o "\n" \o join("\n", ExtraUrls(extra_urls))
     ELSE html

\* lines 37-42
HCARD(types, linked_name, photo) ==
  "  <span class=\"" \o types \o "\">\n"
    \o "    " \o linked_name \o "\n"
    \o "    " \o photo \o "\n"
    \o "  </span>\n"

\* what a conversion to HTML returns when hcard['properties'] or
\* obj['properties'] raises
KeyError == "KeyError: 'properties'"

\* lines 514-535
hcard_to_html(hcard, parent_props) ==
  IF ~TruthyVal(hcard) THEN ""
  ELSE IF ~Has(hcard, "properties") THEN KeyError
  ELSE LET prop == first_props(hcard.properties)
           photo == GetVal(prop, "photo")
       IN HCARD(join(" ", parent_props \o hcard.type),
                maybe_linked_name(hcard.properties),
                IF TruthyVal(photo) THEN img(Format(photo), "u-photo", "") ELSE "")

RECURSIVE tags_to_html(_, _)
\* lines 672-681
tags_to_html(tags, classname) ==
  IF tags = <<>> THEN ""
  ELSE LET t == Head(tags)
       IN (IF Truthy(Get(t, "url", None))
           THEN "\n<a class=\"" \o classname \o "\" href=\"" \o t.url \o "\">"
                  \o Get(t, "displayName", "") \o "</a>"
           ELSE "")
          \o tags_to_html(Tail(tags), classname)

(***************************************************************************)
(* microformats2.py: render_content and object_to_json.  The fields of an  *)
(* ActivityStreams object are str, but for: author, actor, location,       *)
(* object (dicts), image, stream ({'url': str}), replies ({'items': list}),*)
(* context ({'inReplyTo': list}), inReplyTo, tags, attachments (lists of   *)
(* dicts), upstreamDuplicates (list of str), startIndex, length (int).     *)
(* A mention tag of the model has a url.                                   *)
(***************************************************************************)
RECURSIVE object_to_json(_, _, _, _)

RECURSIVE DedupeTags(_, _)
\* lines 556-560: the tags without those whose id was seen before
DedupeTags(tags, seen_ids) ==
  IF tags = <<>> THEN <<>>
  ELSE LET id == Get(Head(tags), "id", None)
       IN IF Truthy(id) /\ id \in seen_ids THEN DedupeTags(Tail(tags), seen_ids)
          ELSE <<Head(tags)>> \o DedupeTags(Tail(tags), seen_ids \cup {id})

\* line 562
IsMention(t) == Has(t, "startIndex") /\ Has(t, "length")

SortByStartIndex_given_order(mentions) == mentions

RECURSIVE SortByStartIndex(_)
\* line 569: list.sort is stable
SortByStartIndex(mentions) ==
  IF mentions = <<>> THEN <<>>
  ELSE LET least == CHOOSE i \in DOMAIN mentions :
                      \A j \in DOMAIN mentions :
                        \/ mentions[i].startIndex < mentions[j].startIndex
                        \/ mentions[i].startIndex = mentions[j].startIndex /\ i <= j
       IN <<mentions[least]>>
          \o SortByStartIndex(SubSeq(mentions, 1, least - 1)
                              \o SubSeq(mentions, least + 1, Len(mentions)))

RECURSIVE Splice(_, _, _)
\* lines 573-581: the content from last_end on, with the mentions linked
Splice(orig, mentions, last_end) ==
  IF mentions = <<>> THEN slice(orig, last_end, Len(orig))
  ELSE LET tag == Head(mentions)
           start == tag.startIndex
           end == start + tag.length
       IN slice(orig, last_end, start)
          \o "<a href=\"" \o tag.url \o "\">" \o slice(orig, start, end) \o "</a>"
          \o Splice(orig, Tail(mentions), end)

\* lines 596-628: the preview of one attachment or article tag
Preview(tag, obj) ==
  LET name == Get(tag, "displayName", "")
      isVideo == Get(tag, "objectType", None) = "video"
      video == IF Get(tag, "stream", EmptyDict) # EmptyDict THEN tag.stream
               ELSE Get(obj, "stream", EmptyDict)
      poster == Get(tag, "image", EmptyDict)
      url == IF Truthy(Get(tag, "url", None)) THEN tag.url ELSE Get(obj, "url", None)
      image == IF Get(tag, "image", EmptyDict) # EmptyDict THEN tag.image
               ELSE Get(obj, "image", EmptyDict)
      summary == Get(tag, "summary", None)
  IN (IF isVideo
      THEN IF Truthy(Get(video, "url", None))
           THEN "\n<p>" \o vid(video.url, Get(poster, "url", None), "thumbnail") \o "</p>"
           ELSE ""
      ELSE "\n<p>"
           \o (IF Truthy(url) THEN "\n<a class=\"link\" href=\"" \o url \o "\">" ELSE "")
           \o (IF Truthy(Get(image, "url", None))
               THEN "\n" \o img(image.url, "thumbnail", name) ELSE ""))
     \o (IF Truthy(name) THEN "\n<span class=\"name\">" \o name \o "</span>" ELSE "")
     \o (IF ~isVideo /\ Truthy(url) THEN "\n</a>" ELSE "")
     \o (IF Truthy(summary) /\ summary # name
         THEN "\n<span class=\"summary\">" \o summary \o "</span>" ELSE "")
     \o "\n</p>"

RECURSIVE Previews(_, _)
\* lines 595-628
Previews(tags, obj) ==
  IF tags = <<>> THEN "" ELSE Preview(Head(tags), obj) \o Previews(Tail(tags), obj)

RECURSIVE TypesOf(_, _)
\* the keys of the dict of line 555 in the order they are set
TypesOf(tags, seen) ==
  IF tags = <<>> THEN <<>>
  ELSE LET type == object_type(Head(tags))
       IN IF type \in seen THEN TypesOf(Tail(tags), seen)
          ELSE <<type>> \o TypesOf(Tail(tags), seen \cup {type})

RECURSIVE SumValues(_, _)
\* line 643: sum(tags.values(), []), the dict's values in the order of its keys
SumValues(tags, types) ==
  IF types = <<>> THEN <<>>
  ELSE SelectSeq(tags, LAMBDA t : object_type(t) = Head(types))
       \o SumValues(tags, Tail(types))

\* lines 538-645
render_content(obj, include_location) ==
  LET kept == DedupeTags(Get(obj, "tags", <<>>), {})
      mentions == SelectSeq(kept, IsMention)
      tags == SelectSeq(kept, LAMBDA t : ~IsMention(t))
      OfType(type) == SelectSeq(tags, LAMBDA t : object_type(t) = type)
      spliced == IF mentions # <<>>
                 THEN Splice(Get(obj, "content", ""), SortByStartIndex(mentions), 0)
                 ELSE Get(obj, "content", "")
      loc == Get(obj, "location", EmptyDict)
      others == SelectSeq(tags, LAMBDA t :
                  object_type(t) \notin {"article", "like", "share", "hashtag", "mention"})
  IN replace(spliced, "\n", "<br />\n")
     \o Previews(Get(obj, "attachments", <<>>) \o OfType("article"), obj)
     \o (IF include_location /\ loc # EmptyDict
         THEN "\n" \o hcard_to_html(object_to_json(loc, TRUE, "h-entry", "place"),
                                    <<"p-location">>)
         ELSE "")
     \o tags_to_html(OfType("hashtag"), "p-category")
     \o tags_to_html(OfType("mention"), "u-mention")
     \o tags_to_html(SumValues(others, TypesOf(others, {})), "tag")

\* lines 113-124 and 135: types_map.get(obj_type, [entry_class])
mf2_types(obj_type, entry_class) ==
  IF obj_type \in {"article", "comment", "like", "note", "share"}
    THEN <<entry_class, "h-as-" \o obj_type>>
  ELSE IF obj_type = "person" THEN <<"h-card">>
  ELSE IF obj_type = "place" THEN <<"h-card", "h-as-location">>
  ELSE IF obj_type \in {"rsvp-yes", "rsvp-no", "rsvp-maybe"} THEN <<entry_class, "h-as-rsvp">>
  ELSE <<entry_class>>

\* lines 125-135: the object type, the primary object and the mf2 types
Resolved(obj, entry_class, default_object_type) ==
  LET Or(type) == IF Truthy(type) THEN type ELSE default_object_type
      isPost == Or(object_type(obj)) = "post"
      primary == IF isPost THEN Get(obj, "object", EmptyDict) ELSE obj
      obj_type == IF isPost THEN Or(object_type(primary)) ELSE Or(object_type(obj))
  IN [obj_type |-> obj_type, primary |-> primary,
      types |-> mf2_types(obj_type, entry_class)]

\* line 147
AppendsObject(obj, entry_class, default_object_type) ==
  /\ InSeq("h-as-rsvp", Resolved(obj, entry_class, default_object_type).types)
  /\ Has(obj, "object")

\* lines 145-148: the list in_reply_tos names after the append; it is the list
\* obj['inReplyTo'], or else obj['context']['inReplyTo'], or else a new list
in_reply_tos_of(obj, entry_class, default_object_type) ==
  Get(obj, "inReplyTo", Get(Get(obj, "context", EmptyDict), "inReplyTo", <<>>))
    \o (IF AppendsObject(obj, entry_class, default_object_type)
        THEN <<obj.object>> ELSE <<>>)

\* lines 145-148: obj after the call, whose list was appended to.  (The objects
\* nested in an object of the model are no RSVP activities with an object.)
object_to_json_obj(obj, entry_class, default_object_type) ==
  IF obj = EmptyDict \/ ~AppendsObject(obj, entry_class, default_object_type) THEN obj
  ELSE IF Has(obj, "inReplyTo")
    THEN [obj EXCEPT !.inReplyTo = Append(@, obj.object)]
  ELSE IF Has(Get(obj, "context", EmptyDict), "inReplyTo")
    THEN [obj EXCEPT !.context.inReplyTo = Append(@, obj.object)]
  ELSE obj

RECURSIVE WrapAll(_)
\* a list of str as property values
WrapAll(strs) ==
  IF strs = <<>> THEN <<>> ELSE <<S(Head(strs))>> \o WrapAll(Tail(strs))

RECURSIVE UrlsOf(_)
\* [o.get('url') for o in objs]
UrlsOf(objs) ==
  IF objs = <<>> THEN <<>> ELSE <<Get(Head(objs), "url", None)>> \o UrlsOf(Tail(objs))

RECURSIVE EncodeAll(_, _)
\* [object_to_json(o, trim_nulls=False, entry_class=entry_class) for o in objs]
EncodeAll(objs, entry_class) ==
  IF objs = <<>> THEN <<>>
  ELSE <<object_to_json(Head(objs), FALSE, entry_class, None)>>
       \o EncodeAll(Tail(objs), entry_class)

RECURSIVE EncodeTargets(_)
\* lines 194-197
EncodeTargets(objs) ==
  IF objs = <<>> THEN <<>>
  ELSE LET o == Head(objs)
       IN <<IF Has(o, "url") /\ DOMAIN o \subseteq {"url", "objectType"}
            THEN S(o.url)
            ELSE object_to_json(o, FALSE, "h-cite", None)>>
          \o EncodeTargets(Tail(objs))

RECURSIVE trim_nulls_item(_)
RECURSIVE TrimValues(_)
\* util.trim_nulls of a list of property values
TrimValues(vals) ==
  IF vals = <<>> THEN <<>>
  ELSE LET v == trim_nulls_item(Head(vals))
       IN (IF TruthyVal(v) THEN <<v>> ELSE <<>>) \o TrimValues(Tail(vals))

\* util.trim_nulls of an item {'type': list of str, 'properties': dict of
\* lists}, of a {'value': str, 'html': str} dict, or of a str
trim_nulls_item(val) ==
  IF IsStr(val) THEN val
  ELSE LET trimmed ==
             [k \in DOMAIN val |->
                IF k = "type" THEN SeqFilterNull(val[k])
                ELSE IF k = "properties"
                  THEN LET lists == [p \in DOMAIN val[k] |-> TrimValues(val[k][p])]
                       IN [p \in {q \in DOMAIN lists : lists[q] # <<>>} |-> lists[p]]
                ELSE val[k]]
           IsNull(k) == IF k \in {"type", "properties"} THEN trimmed[k] = <<>>
                        ELSE ~Truthy(trimmed[k])
       IN [k \in {x \in DOMAIN val : ~IsNull(x)} |-> trimmed[k]]

\* lines 95-206
object_to_json(obj, trim_nulls_arg, entry_class, default_object_type) ==
  IF obj = EmptyDict THEN EmptyDict
  ELSE
  LET resolved == Resolved(obj, entry_class, default_object_type)
      obj_type == resolved.obj_type
      primary == resolved.primary
      types == resolved.types
      url == Get(obj, "url", Get(primary, "url", ""))
      content == Get(primary, "content", "")
      name == Get(primary, "displayName", Get(primary, "title", None))
      summary == Get(primary, "summary", None)
      author == Get(obj, "author", Get(obj, "actor", EmptyDict))
      in_reply_tos == in_reply_tos_of(obj, entry_class, default_object_type)
      Of(field, default) == Get(obj, field, Get(primary, field, default))
      object == Get(obj, "object", <<>>)
      objs == IF IsList(object) THEN object.list
              ELSE IF Has(obj, "object") THEN <<object>> ELSE <<>>
      Received(type) ==
        EncodeAll(SelectSeq(Get(obj, "tags", <<>>), LAMBDA t : object_type(t) = type),
                  "h-cite")
      properties ==
        ("uid" :> <<S(Get(obj, "id", ""))>>)
        @@ ("name" :> <<S(name)>>)
        @@ ("summary" :> <<S(summary)>>)
        @@ ("url" :> <<S(url)>> \o WrapAll(Get(obj, "upstreamDuplicates", <<>>)))
        @@ ("photo" :> <<S(Get(Of("image", EmptyDict), "url", ""))>>)
        @@ ("video" :> <<S(Get(Of("stream", EmptyDict), "url", None))>>)
        @@ ("published" :> <<S(Of("published", ""))>>)
        @@ ("updated" :> <<S(Of("updated", ""))>>)
        @@ ("content" :> <<[value |-> unescape(content),
                            html |-> render_content(primary, FALSE)]>>)
        @@ ("in-reply-to" :> WrapAll(SeqFilterNull(UrlsOf(in_reply_tos))))
        @@ ("author" :> <<object_to_json(author, FALSE, "h-entry", "person")>>)
        @@ ("location" :> <<object_to_json(Get(primary, "location", EmptyDict), FALSE,
                                           "h-entry", "place")>>)
        @@ ("comment" :> EncodeAll(Get(Get(obj, "replies", EmptyDict), "items", <<>>),
                                   "h-cite"))
      rsvp == IF InSeq("h-as-rsvp", types)
              THEN ("rsvp" :> <<S(slice(obj_type, Len("rsvp-"), Len(obj_type)))>>)
              ELSE IF obj_type = "invite"
              THEN ("invitee" :> <<object_to_json(Get(obj, "object", EmptyDict), FALSE,
                                                  "h-entry", "person")>>)
              ELSE EmptyDict
      likes == IF obj_type = "like"
               THEN ("like-of" :> EncodeTargets(objs)) @@ ("like" :> EncodeTargets(objs))
               ELSE ("like" :> Received("like"))
      reposts == IF obj_type = "share"
                 THEN ("repost-of" :> EncodeTargets(objs))
                      @@ ("repost" :> EncodeTargets(objs))
                 ELSE ("repost" :> Received("share"))
      ret == [type |-> types,
              properties |-> Update(Update(Update(properties, rsvp), likes), reposts)]
  IN IF trim_nulls_arg THEN trim_nulls_item(ret) ELSE ret

(***************************************************************************)
(* microformats2.py: json_to_html.  A conversion that raises returns       *)
(* KeyError.  A property value is a str or a dict; `content` is a          *)
(* {'value': str, 'html': str} dict.                                       *)
(***************************************************************************)
\* lines 17-36
HENTRY(s) ==
  "<article class=\"" \o s.types \o "\">\n"
    \o "  <span class=\"p-uid\">" \o s.uid \o "</span>\n"
    \o "  " \o s.summary \o "\n"
    \o "  " \o s.published \o "\n"
    \o "  " \o s.updated \o "\n"
    \o s.author \o "\n"
    \o "  " \o s.linked_name \o "\n"
    \o "  <div class=\"" \o s.content_classes \o "\">\n"
    \o "  " \o s.invitees \o "\n"
    \o "  " \o s.content \o "\n"
    \o "  </div>\n"
    \o s.video \o "\n"
    \o s.photo \o "\n"
    \o s.location \o "\n"
    \o s.in_reply_tos \o "\n"
    \o s.likes_and_reposts \o "\n"
    \o s.comments \o "\n"
    \o "</article>\n"

\* line 43
IN_REPLY_TO(url) == "  <a class=\"u-in-reply-to\" href=\"" \o url \o "\"></a>"

\* lines 45-50
HCITE_AS_CONTENT(participle, linked_name, author, content) ==
  participle \o " " \o linked_name \o " by " \o author \o "\n"
    \o "<div>\n"
    \o "  " \o content \o "\n"
    \o "</div>\n"

\* lines 483-511
hcite_to_content_html(hcite, participle) ==
  IF ~Has(hcite, "properties") THEN KeyError
  ELSE
  LET prop == first_props(hcite.properties)
      content == Get(prop, "content", EmptyDict)
      content_html == Get(content, "html", Get(content, "value", ""))
      author == Get(prop, "author", Get(prop, "actor", EmptyDict))
  IN IF ~Has(author, "properties") THEN KeyError
     ELSE HCITE_AS_CONTENT(
            participle,
            "<a href=\"" \o Format(Get(prop, "url", S("#"))) \o "\">"
              \o Format(Get(prop, "name", S("a post"))) \o "</a>",
            hcard_to_html([author EXCEPT !.properties = Without(@, {"photo"})], <<>>),
            content_html)

\* lines 394-396
RsvpNames == [yes |-> "is attending.", no |-> "is not attending.", maybe |-> "might attend."]

\* line 392: the item is an rsvp
IsRsvp(obj) == TruthyVal(GetVal(first_props(obj.properties), "rsvp"))

\* lines 393-398: the list props['name'] after line 398
RsvpName(obj) ==
  LET rsvp == GetVal(first_props(obj.properties), "rsvp")
      name == IF Get(obj.properties, "name", <<>>) = <<>>
              THEN <<S(Get(RsvpNames, Format(rsvp), None))>>
              ELSE obj.properties.name
  IN [name EXCEPT ![1] = S("<data class=\"p-rsvp\" value=\"" \o Format(rsvp) \o "\">"
                           \o Format(name[1]) \o "</data>")]

\* lines 380-401: the dict `props` when the item's name has been set
\* the properties without lines 391-401: no default name for an rsvp or an
\* invitation
NamedProps_without_defaults(obj) == obj.properties

NamedProps(obj) ==
  IF IsRsvp(obj) THEN Put(obj.properties, "name", RsvpName(obj))
  ELSE IF Get(obj.properties, "invitee", <<>>) # <<>>
          /\ Get(obj.properties, "name", <<>>) = <<>>
    THEN Put(obj.properties, "name", <<S("invited")>>)
  ELSE obj.properties

\* line 408, with the targets of each property: like-of comes before repost-of
TargetsOf(props) ==
  LET Of(mftype, part) ==
        [i \in DOMAIN Get(props, mftype \o "-of", <<>>) |->
           [target |-> props[mftype \o "-of"][i], mftype |-> mftype, part |-> part]]
  IN Of("like", "Liked") \o Of("repost", "Shared")

RECURSIVE AsContent(_, _)
\* lines 413-425: likes_and_reposts_as_content, after as_content
AsContent(targets, as_content) ==
  IF targets = <<>> THEN as_content
  ELSE LET t == Head(targets)
           phrase == IF as_content = <<>> THEN t.mftype \o "s this." ELSE ""
       IN AsContent(Tail(targets),
            Append(as_content,
              IF IsDict(t.target) THEN hcite_to_content_html(t.target, t.part)
              ELSE "<a class=\"u-" \o t.mftype \o " u-" \o t.mftype \o "-of\" href=\""
                     \o t.target.str \o "\">" \o phrase \o "</a>"))

RECURSIVE json_to_html(_, _)

RECURSIVE RenderTargets(_)
\* lines 415-416
RenderTargets(targets) ==
  IF targets = <<>> THEN <<>>
  ELSE (IF IsDict(Head(targets).target)
        THEN <<json_to_html(Head(targets).target,
                            <<"u-" \o Head(targets).mftype,
                              "u-" \o Head(targets).mftype \o "-of">>)>>
        ELSE <<>>)
       \o RenderTargets(Tail(targets))

RECURSIVE RenderAll(_, _)
\* [json_to_html(v, parent_props) for v in vals]
RenderAll(vals, parent_props) ==
  IF vals = <<>> THEN <<>>
  ELSE <<json_to_html(Head(vals), parent_props)>> \o RenderAll(Tail(vals), parent_props)

RECURSIVE Cards(_, _)
\* [hcard_to_html(i, parent_props) for i in hcards]
Cards(hcards, parent_props) ==
  IF hcards = <<>> THEN <<>>
  ELSE <<hcard_to_html(Head(hcards), parent_props)>> \o Cards(Tail(hcards), parent_props)

\* lines 442-445: the urls that are not empty
Media(urls) == SelectSeq(urls, TruthyVal)

\* lines 455-461: the embedded likes or reposts of the post
Embedded(props, verb) ==
  LET vals == Get(props, verb, <<>>)
  IN IF ~Has(props, verb \o "-of") /\ vals # <<>> /\ IsDict(vals[1])
     THEN RenderAll(vals, <<"u-" \o verb>>)
     ELSE <<>>

\* lines 361-480
json_to_html(obj, parent_props) ==
  IF ~TruthyVal(obj) THEN ""
  ELSE IF obj.type[1] = "h-card" THEN hcard_to_html(obj, parent_props)
  ELSE IF ~Has(obj, "properties") THEN KeyError
  ELSE
  LET prop == first_props(obj.properties)
      props == NamedProps(obj)
      in_reply_tos == get_string_urls(Get(props, "in-reply-to", <<>>))
      targets == TargetsOf(props)
      likes_and_reposts_as_content == AsContent(targets, <<>>)
      content == Get(prop, "content", EmptyDict)
      content_html ==
        join("\n", <<IF Truthy(Get(content, "html", "")) THEN content.html
                     ELSE Get(content, "value", "")>>
                   \o likes_and_reposts_as_content)
      content_classes ==
        IF content_html # ""
        THEN <<"e-content">> \o (IF Get(props, "name", <<>>) = <<>>
                                 THEN <<"p-name">> ELSE <<>>)
        ELSE <<>>
      comments == RenderAll(Get(props, "comment", <<>>), <<"p-comment">>)
      likes_and_reposts ==
        RenderTargets(targets) \o Embedded(props, "like") \o Embedded(props, "repost")
      author == hcard_to_html(GetVal(prop, "author"), <<"p-author">>)
      location == hcard_to_html(GetVal(prop, "location"), <<"p-location">>)
      invitees == Cards(Get(props, "invitee", <<>>), <<"p-invitee">>)
      photos == Media(Get(props, "photo", <<>>))
      videos == Media(Get(props, "video", <<>>))
      raised == likes_and_reposts_as_content \o comments \o likes_and_reposts
                  \o <<author, location>> \o invitees
  IN IF InSeq(KeyError, raised) THEN KeyError
     ELSE HENTRY(
       [uid |-> Format(Get(prop, "uid", S(""))),
        published |-> maybe_datetime(Format(GetVal(prop, "published")), "dt-published"),
        updated |-> maybe_datetime(Format(GetVal(prop, "updated")), "dt-updated"),
        types |-> join(" ", parent_props \o obj.type),
        author |-> author,
        location |-> location,
        photo |-> join("\n", [i \in DOMAIN photos |->
                                 img(Format(photos[i]), "u-photo", "attachment")]),
        video |-> join("\n", [i \in DOMAIN videos |->
                                 vid(Format(videos[i]), None, "u-video")]),
        in_reply_tos |-> join("\n", [i \in DOMAIN in_reply_tos |->
                                       IN_REPLY_TO(in_reply_tos[i])]),
        invitees |-> join("\n", invitees),
        content |-> content_html,
        content_classes |-> join(" ", content_classes),
        comments |-> join("\n", comments),
        likes_and_reposts |-> join("\n", likes_and_reposts),
        linked_name |-> maybe_linked_name(props),
        summary |-> IF TruthyVal(GetVal(prop, "summary"))
                    THEN "<div class=\"p-summary\">" \o Format(prop.summary) \o "</div>"
                    ELSE ""])

RECURSIVE json_to_html_obj(_)
\* obj after json_to_html(obj): line 380 copies the dict of properties and not
\* its lists, so line 397 sets the first element of the caller's `name` list,
\* in the item and in each item nested in it that is rendered.  (A call of
\* the model that raises has rendered no nested rsvp item.)
json_to_html_obj(obj) ==
  IF ~TruthyVal(obj) \/ IsStr(obj) THEN obj
  ELSE IF obj.type[1] = "h-card" \/ ~Has(obj, "properties") THEN obj
  ELSE LET props == obj.properties
           raised == json_to_html(obj, <<>>) = KeyError
           Rendered(p) ==
             \/ p \in {"like-of", "repost-of", "comment"}
             \/ /\ p \in {"like", "repost"}
                /\ ~Has(props, p \o "-of")
                /\ props[p] # <<>> /\ IsDict(props[p][1])
       IN [obj EXCEPT !.properties =
             [p \in DOMAIN props |->
                IF p = "name" /\ IsRsvp(obj) /\ props[p] # <<>> THEN RsvpName(obj)
                ELSE IF Rendered(p) /\ ~raised
                  THEN [i \in DOMAIN props[p] |-> json_to_html_obj(props[p][i])]
                ELSE props[p]]]

\* lines 340-358
object_to_html(obj, parent_props) ==
  json_to_html(object_to_json(obj, TRUE, "h-entry", None), parent_props)

(***************************************************************************)
(* Callers of json_to_object: a parsed item is built, type first, then     *)
(* property by property, and decoded.                                      *)
(***************************************************************************)
MaxProps == 4

Cite(url) ==
  [type |-> <<"h-cite">>, properties |-> [url |-> <<S(url)>>, name |-> <<S("a post")>>]]

Card(name) ==
  [type |-> <<"h-card">>, properties |-> [name |-> <<S(name)>>]]

\* a citation with an author
CiteBy(url, name) ==
  [type |-> <<"h-cite">>,
   properties |-> [url |-> <<S(url)>>, name |-> <<S("a post")>>,
                   author |-> <<Card(name)>>]]

ItemTypes ==
  {<<>>, <<"h-entry">>, <<"h-entry", "h-as-note">>, <<"h-entry", "h-as-rsvp">>,
   <<"h-entry", "h-as-share">>, <<"h-entry", "h-as-like">>, <<"h-entry", "h-as-comment">>,
   <<"h-entry", "h-as-reply">>, <<"h-card", "h-as-location">>, <<"h-card">>,
   <<"h-entry", "h-as-like", "h-as-share">>, <<"h-as-location", "h-as-rsvp">>}

\* the values a property of an item can hold; <<>> is a property with no value
PropValues ==
  ("rsvp" :> {<<>>, <<S("yes")>>, <<S("no")>>, <<S("maybe")>>, <<S("")>>})
  @@ ("invitee" :> {<<Card("Bob")>>})
  @@ ("like" :> {<<S("http://a/1")>>, <<S("http://a/2"), Cite("http://a/1")>>})
  @@ ("like-of" :> {<<S("http://a/1")>>, <<Cite("http://a/1"), S("http://a/1"), S("http://a/1")>>})
  @@ ("repost" :> {<<S("http://a/1")>>})
  @@ ("repost-of" :> {<<S("http://a/2"), S("http://a/1")>>, <<Cite("http://a/2")>>})
  @@ ("in-reply-to" :> {<<S("http://a/3")>>, <<S(""), Cite("http://a/3")>>})
  @@ ("uid" :> {<<S("tag:a,1")>>})
  @@ ("author" :> {<<Card("Alice")>>})

NewItem(types) ==
  /\ mf2pc = "idle"
  /\ parsed = EmptyDict
  /\ mf2pc' = "parsed"
  /\ mf2In' = [type |-> types, properties |-> EmptyDict]
  /\ UNCHANGED objOut
  /\ UNCHANGED <<parsed, batchOut>>
  /\ UNCHANGED <<nostrVars, htmlVars, mastoVars>>

AddProperty(name, vals) ==
  /\ mf2pc = "parsed"
  /\ name \notin DOMAIN mf2In.properties
  /\ Cardinality(DOMAIN mf2In.properties) < MaxProps
  /\ mf2In' = [mf2In EXCEPT !.properties = Put(mf2In.properties, name, vals)]
  /\ UNCHANGED <<mf2pc, objOut>>
  /\ UNCHANGED <<parsed, batchOut>>
  /\ UNCHANGED <<nostrVars, htmlVars, mastoVars>>

JsonToObject ==
  /\ mf2pc = "parsed"
  /\ mf2pc' = "decoded"
  /\ objOut' = json_to_object(mf2In)
  /\ UNCHANGED mf2In
  /\ UNCHANGED <<parsed, batchOut>>
  /\ UNCHANGED <<nostrVars, htmlVars, mastoVars>>

ReturnMf2 ==
  /\ mf2pc = "decoded"
  /\ mf2pc' = "idle"
  /\ mf2In' = EmptyDict
  /\ objOut' = EmptyDict
  /\ UNCHANGED <<parsed, batchOut>>
  /\ UNCHANGED <<nostrVars, htmlVars, mastoVars>>

MaxBatch == 5

\* the items of a page: a note, a like, and items whose `properties` is a
\* list
BatchItems ==
  {[type |-> <<"h-entry", "h-as-note">>,
    properties |-> [uid |-> <<S("tag:a,1")>>, name |-> <<S("hi")>>]],
   [type |-> <<"h-entry">>, properties |-> ("like-of" :> <<S("http://a/1")>>)],
   [type |-> <<"h-entry">>, properties |-> [list |-> <<S("x")>>]],
   [type |-> <<"h-entry">>, properties |-> [list |-> <<>>]]}

Batches == UNION {[1..n -> BatchItems] : n \in 0..MaxBatch}

\* an h-feed of the given items, and an entry with the given children
Feed(children) == [type |-> <<"h-feed">>, properties |-> EmptyDict, children |-> children]

Entry(name, children) ==
  [type |-> <<"h-entry">>, properties |-> [name |-> <<S(name)>>], children |-> children]

Leaf(name) == [type |-> <<"h-entry">>, properties |-> [name |-> <<S(name)>>]]

\* pages whose h-feeds are nested: a feed below the first item and a feed at
\* the top after it, a feed below the first item only, two feeds at the top,
\* a deeper feed to the left of a shallower one, a feed without children, a
\* feed with a second type, and nested entries without a feed
TreeDocs ==
  {[items |-> <<Entry("a", <<Feed(<<Leaf("deep")>>)>>), Feed(<<Leaf("top")>>)>>],
   [items |-> <<Entry("a", <<Feed(<<Leaf("deep")>>)>>), Leaf("b")>>],
   [items |-> <<Feed(<<Leaf("left")>>), Feed(<<Leaf("right")>>)>>],
   [items |-> <<Entry("a", <<Entry("b", <<Feed(<<Leaf("deep")>>)>>)>>),
                Entry("c", <<Feed(<<Leaf("shallow"), Leaf("er")>>)>>)>>],
   [items |-> <<[type |-> <<"h-feed">>, properties |-> EmptyDict]>>],
   [items |-> <<Leaf("a"),
                [type |-> <<"h-x", "h-feed">>, properties |-> EmptyDict,
                 children |-> <<Leaf("in")>>]>>],
   [items |-> <<Entry("a", <<Leaf("b"), Entry("c", <<Leaf("d")>>)>>), Leaf("e")>>]}

\* what the parser returns: the items at the top, or inside an h-feed, or a tree
ParsedDocs ==
  {[items |-> items] : items \in Batches}
  \cup {[items |-> <<[type |-> <<"h-feed">>, properties |-> EmptyDict,
                      children |-> items]>>] : items \in Batches}
  \cup TreeDocs

\* parsed = parser.Parser(doc=html, url=None).to_dict()
ParseHtml(doc) ==
  /\ mf2pc = "idle"
  /\ parsed = EmptyDict
  /\ parsed' = doc
  /\ UNCHANGED <<mf2In, objOut, mf2pc, batchOut>>
  /\ UNCHANGED <<nostrVars, htmlVars, mastoVars>>

\* html_to_activities(html), after the parser
HtmlToActivities ==
  /\ parsed # EmptyDict
  /\ batchOut = EmptyDict
  /\ batchOut' = html_to_activities(parsed)
  /\ UNCHANGED <<mf2In, objOut, mf2pc, parsed>>
  /\ UNCHANGED <<nostrVars, htmlVars, mastoVars>>

ReturnBatch ==
  /\ batchOut # EmptyDict
  /\ parsed' = EmptyDict
  /\ batchOut' = EmptyDict
  /\ UNCHANGED <<mf2In, objOut, mf2pc>>
  /\ UNCHANGED <<nostrVars, htmlVars, mastoVars>>

NextMf2 ==
  \/ \E types \in ItemTypes : NewItem(types)
  \/ \E name \in DOMAIN PropValues : \E vals \in PropValues[name] : AddProperty(name, vals)
  \/ JsonToObject
  \/ ReturnMf2
  \/ \E doc \in ParsedDocs : ParseHtml(doc)
  \/ HtmlToActivities
  \/ ReturnBatch

(***************************************************************************)
(* Callers of object_to_json and json_to_html: a caller holds an object,   *)
(* encodes it up to MaxCalls times, decodes the item it got, and renders   *)
(* that item, or an item it parsed, up to MaxCalls times.                  *)
(***************************************************************************)
MaxCalls == 2

Alice ==
  [objectType |-> "person", displayName |-> "Alice", url |-> "http://a/alice",
   image |-> [url |-> "http://a/alice.jpg"]]

EventUrl == "http://a/event"

\* a target as a bare {url}, as {url, objectType}, and as a rich object
TargetObjects ==
  {[url |-> EventUrl],
   [url |-> EventUrl, objectType |-> "event"],
   [objectType |-> "event", id |-> "tag:a,event", url |-> EventUrl,
    displayName |-> "Party", author |-> Alice]}

Rsvps ==
  {Update(Update(Update([objectType |-> "activity", verb |-> verb, actor |-> Alice],
                        name), replied), target) :
     verb \in {"rsvp-yes", "rsvp-no", "rsvp-maybe"},
     name \in {EmptyDict, [displayName |-> "Alice is in"]},
     replied \in {EmptyDict,
                  [inReplyTo |-> <<[url |-> "http://a/invite"]>>],
                  [inReplyTo |-> <<>>],
                  [context |-> [inReplyTo |-> <<[url |-> "http://a/invite"]>>]]},
     target \in {EmptyDict, [object |-> [url |-> EventUrl]]}}

Reactions ==
  {[objectType |-> "activity", verb |-> verb, id |-> "tag:a,2", actor |-> Alice,
    object |-> object] :
     verb \in {"like", "share"},
     object \in TargetObjects
                \cup {[list |-> <<[url |-> "http://a/1"], [url |-> EventUrl]>>]}}

BobMention ==
  [objectType |-> "person", url |-> "http://a/bob", startIndex |-> 3, length |-> 4]

Posts ==
  {[objectType |-> "note", id |-> "tag:a,1", url |-> "http://a/1", content |-> "hi",
    author |-> Alice],
   [objectType |-> "note", content |-> "hi @bob\nA &amp; B",
    tags |-> <<BobMention,
               [objectType |-> "hashtag", url |-> "http://a/t/x", displayName |-> "x"],
               [objectType |-> "person", id |-> "tag:a,carol", url |-> "http://a/carol",
                displayName |-> "Carol"],
               [objectType |-> "person", id |-> "tag:a,carol", url |-> "http://a/carol",
                displayName |-> "Carol"]>>],
   [objectType |-> "article", displayName |-> "A title", content |-> "text",
    published |-> "2012-03-04T18:20:37+00:00",
    image |-> [url |-> "http://a/pic.jpg"],
    location |-> [objectType |-> "place", displayName |-> "Cafe", url |-> "http://a/cafe"],
    attachments |-> <<[objectType |-> "article", url |-> "http://a/link",
                       displayName |-> "A link", summary |-> "about"],
                      [objectType |-> "video", stream |-> [url |-> "http://a/v.mp4"],
                       image |-> [url |-> "http://a/v.jpg"]]>>],
   [objectType |-> "comment", id |-> "tag:a,3", content |-> "me too",
    inReplyTo |-> <<[url |-> "http://a/1"], [id |-> "tag:a,1"]>>],
   [objectType |-> "activity", verb |-> "post",
    object |-> [objectType |-> "note", url |-> "http://a/1", content |-> "hi"]],
   [objectType |-> "activity", verb |-> "invite", actor |-> Alice,
    object |-> [objectType |-> "person", displayName |-> "Bob"]],
   [objectType |-> "event", id |-> "tag:a,event", url |-> EventUrl,
    displayName |-> "Party",
    replies |-> [items |-> <<[objectType |-> "activity", verb |-> "rsvp-yes",
                              displayName |-> "Bob is in",
                              actor |-> [objectType |-> "person",
                                         displayName |-> "Bob"]]>>],
    tags |-> <<[objectType |-> "activity", verb |-> "like", author |-> Alice,
                url |-> "http://a/like"]>>],
   Alice,
   [objectType |-> "place", displayName |-> "Cafe"],
   [objectType |-> "note"],
   [id |-> "tag:a,4", summary |-> "s", upstreamDuplicates |-> <<"http://b/4">>,
    stream |-> [url |-> "http://a/v.mp4"], updated |-> "2012-03-04T18:20:37+00:00"]}

\* the fields a canonical object is built from
CanonicalFields ==
  {Update(Update(id, url), name) :
     id \in {EmptyDict, [id |-> "tag:a,1"]},
     url \in {EmptyDict, [url |-> "http://a/1"]},
     name \in {EmptyDict, [displayName |-> "A name"]}}

\* a target as a bare {url}, as {url, objectType}, and as a rich object
CanonicalTargets ==
  {[url |-> "http://a/2"],
   [url |-> "http://a/2", objectType |-> "note"],
   [objectType |-> "note", id |-> "tag:a,2", url |-> "http://a/2",
    displayName |-> "Hello", author |-> Alice]}

\* canonical notes, articles, persons, likes, shares and RSVPs
CanonicalObjects ==
  {Update(Update([objectType |-> type], fields), author) :
     type \in {"note", "article"}, fields \in CanonicalFields,
     author \in {EmptyDict, [author |-> Alice]}}
  \cup {Update([objectType |-> "person"], fields) : fields \in CanonicalFields}
  \cup {Update(Update([objectType |-> "activity", verb |-> verb, object |-> target],
                      fields), actor) :
          verb \in {"like", "share", "rsvp-yes", "rsvp-no", "rsvp-maybe"},
          target \in CanonicalTargets, fields \in CanonicalFields,
          actor \in {EmptyDict, [actor |-> Alice]}}

MaxMentions == 3

\* mentions of "hi", "@bob" and "@al", and of Bob again where "@al" is
MentionTags ==
  {[objectType |-> "person", url |-> "http://a/hi", startIndex |-> 0, length |-> 2],
   [objectType |-> "person", id |-> "tag:a,bob", url |-> "http://a/bob",
    startIndex |-> 3, length |-> 4],
   [objectType |-> "person", id |-> "tag:a,al", url |-> "http://a/al",
    startIndex |-> 8, length |-> 3],
   [objectType |-> "person", id |-> "tag:a,bob", url |-> "http://a/bob",
    startIndex |-> 8, length |-> 3]}

Disjoint(s, t) ==
  \/ s.startIndex + s.length <= t.startIndex
  \/ t.startIndex + t.length <= s.startIndex

\* the mention tags in any order, their spans pairwise disjoint
MentionLists ==
  {tags \in UNION {[1..n -> MentionTags] : n \in 0..MaxMentions} :
     \A i, j \in DOMAIN tags : i # j => Disjoint(tags[i], tags[j])}

\* notes whose tags are mentions in the content
MentionPosts ==
  {[objectType |-> "note", content |-> content, tags |-> tags] :
     content \in {"hi @bob\n@al", "hi @bob @al!"}, tags \in MentionLists}

\* notes with any of: an attachment, an article tag, a hashtag, a mention
\* tag and a person tag without offsets, in two orders, and a location
BlockPosts ==
  {Update(Update(Update([objectType |-> "note", content |-> "text"], attached),
                 tagged), located) :
     attached \in {EmptyDict,
                   [attachments |-> <<[objectType |-> "article", url |-> "http://a/link",
                                       displayName |-> "A link"]>>]},
     tagged \in {EmptyDict}
                \cup {[tags |-> tags] :
                        tags \in {<<[objectType |-> "hashtag", url |-> "http://a/t/x",
                                      displayName |-> "x"]>>,
                                  <<[objectType |-> "person", url |-> "http://a/carol",
                                     displayName |-> "Carol"],
                                    [objectType |-> "mention", url |-> "http://a/m",
                                     displayName |-> "M"],
                                    [objectType |-> "hashtag", url |-> "http://a/t/x",
                                     displayName |-> "x"],
                                    [objectType |-> "article", url |-> "http://a/art",
                                     displayName |-> "Art"]>>,
                                  <<[objectType |-> "hashtag", url |-> "http://a/t/x",
                                     displayName |-> "x"],
                                    [objectType |-> "mention", url |-> "http://a/m",
                                     displayName |-> "M"]>>}},
     located \in {EmptyDict,
                  [location |-> [objectType |-> "place", displayName |-> "Cafe",
                                 url |-> "http://a/cafe"]]}}

EncObjects ==
  Rsvps \cup Reactions \cup Posts \cup CanonicalObjects \cup MentionPosts
    \cup BlockPosts

\* likes and reposts of bare urls and of citations with an author, in each
\* order
LikeItems ==
  ({[type |-> <<"h-entry">>, properties |-> Update(likes, reposts)] :
      likes \in {EmptyDict} \cup
        {("like-of" :> targets) :
           targets \in {<<S("http://a/1")>>,
                        <<S("http://a/1"), S("http://a/2")>>,
                        <<CiteBy("http://a/3", "Bob"), S("http://a/2")>>,
                        <<S("http://a/1"), CiteBy("http://a/3", "Bob")>>}},
      reposts \in {EmptyDict} \cup
        {("repost-of" :> targets) :
           targets \in {<<S("http://a/4")>>,
                        <<CiteBy("http://a/3", "Bob")>>,
                        <<CiteBy("http://a/3", "Bob"), S("http://a/4")>>}}})
    \ {[type |-> <<"h-entry">>, properties |-> EmptyDict]}

\* items a caller parsed: an rsvp with an explicit name, rsvps whose value
\* has no default name, a repost of an h-cite without an author, a like with
\* an empty name
ParsedItems ==
  {[type |-> <<"h-entry">>,
    properties |-> [rsvp |-> <<S(rsvp)>>, name |-> name] ] :
      rsvp \in {"yes", "no", "maybe", "interested"},
      name \in {<<S("Alice is in")>>, <<S("")>>, <<>>}}
  \cup
  {[type |-> <<"h-entry">>, properties |-> [rsvp |-> <<S("yes")>>, uid |-> <<>>]],
   [type |-> <<"h-entry">>, properties |-> ("repost-of" :> <<Cite("http://a/1")>>)],
   [type |-> <<"h-entry">>,
    properties |-> ("like-of" :> <<S("http://a/1"), S("http://a/2")>>)
                   @@ ("name" :> <<>>)],
   [type |-> <<"h-entry">>,
    properties |-> [invitee |-> <<Card("Bob")>>, author |-> <<Card("Alice")>>]]}
  \cup
  \* an rsvp, an invitation and a plain entry with content, named or not
  {[type |-> <<"h-entry">>,
    properties |-> Update(Update([content |-> <<[html |-> "<b>See you</b>",
                                                value |-> "See you"]>>],
                                 kind), name)] :
      kind \in {EmptyDict, [rsvp |-> <<S("yes")>>], [invitee |-> <<Card("Bob")>>]},
      name \in {EmptyDict, [name |-> <<S("The party")>>]}}
  \cup LikeItems

IdleHtml == asObj = EmptyDict /\ mf2Item = EmptyDict

NewObject(obj) ==
  /\ IdleHtml
  /\ asObj' = obj
  /\ asBuilt' = obj
  /\ UNCHANGED <<itemsOut, mf2Item, mf2Built, htmlOut, objBack, rendered>>
  /\ UNCHANGED <<nostrVars, mf2Vars, mastoVars>>

\* item = object_to_json(asObj)
ObjectToJson ==
  /\ asObj # EmptyDict
  /\ htmlOut = <<>>
  /\ Len(itemsOut) < MaxCalls
  /\ itemsOut' = Append(itemsOut, object_to_json(asObj, TRUE, "h-entry", None))
  /\ asObj' = object_to_json_obj(asObj, "h-entry", None)
  /\ mf2Item' = object_to_json(asObj, TRUE, "h-entry", None)
  /\ mf2Built' = mf2Item'
  /\ UNCHANGED <<asBuilt, htmlOut, objBack, rendered>>
  /\ UNCHANGED <<nostrVars, mf2Vars, mastoVars>>

ParsedItem(item) ==
  /\ IdleHtml
  /\ mf2Item' = item
  /\ mf2Built' = item
  /\ UNCHANGED <<asObj, asBuilt, itemsOut, htmlOut, objBack, rendered>>
  /\ UNCHANGED <<nostrVars, mf2Vars, mastoVars>>

\* json_to_html(item)
JsonToHtml ==
  /\ mf2Item # EmptyDict
  /\ Len(htmlOut) < MaxCalls
  /\ htmlOut' = Append(htmlOut, json_to_html(mf2Item, <<>>))
  /\ mf2Item' = json_to_html_obj(mf2Item)
  /\ UNCHANGED <<asObj, asBuilt, itemsOut, mf2Built, objBack, rendered>>
  /\ UNCHANGED <<nostrVars, mf2Vars, mastoVars>>

\* render_content(obj, include_location)
RenderContent(include_location) ==
  /\ asObj # EmptyDict
  /\ itemsOut = <<>>
  /\ rendered = <<>>
  /\ rendered' = <<[include_location |-> include_location,
                    html |-> render_content(asObj, include_location)]>>
  /\ UNCHANGED <<asObj, asBuilt, itemsOut, mf2Item, mf2Built, htmlOut, objBack>>
  /\ UNCHANGED <<nostrVars, mf2Vars, mastoVars>>

\* json_to_object(object_to_json(obj)): the caller decodes the item it got
DecodeItem ==
  /\ Len(itemsOut) = 1
  /\ htmlOut = <<>>
  /\ objBack = <<>>
  /\ objBack' = <<json_to_object(itemsOut[1])>>
  /\ UNCHANGED <<asObj, asBuilt, itemsOut, mf2Item, mf2Built, htmlOut, rendered>>
  /\ UNCHANGED <<nostrVars, mf2Vars, mastoVars>>

\* the caller drops the object, the item and the results
ReturnHtml ==
  /\ htmlOut # <<>> \/ itemsOut # <<>> \/ rendered # <<>>
  /\ objBack' = <<>>
  /\ rendered' = <<>>
  /\ asObj' = EmptyDict
  /\ asBuilt' = EmptyDict
  /\ itemsOut' = <<>>
  /\ mf2Item' = EmptyDict
  /\ mf2Built' = EmptyDict
  /\ htmlOut' = <<>>
  /\ UNCHANGED <<nostrVars, mf2Vars, mastoVars>>

InitHtml ==
  /\ asObj = EmptyDict
  /\ asBuilt = EmptyDict
  /\ itemsOut = <<>>
  /\ mf2Item = EmptyDict
  /\ mf2Built = EmptyDict
  /\ htmlOut = <<>>
  /\ objBack = <<>>
  /\ rendered = <<>>

NextHtml ==
  \/ \E obj \in EncObjects : NewObject(obj)
  \/ ObjectToJson
  \/ \E item \in ParsedItems : ParsedItem(item)
  \/ JsonToHtml
  \/ \E include_location \in BOOLEAN : RenderContent(include_location)
  \/ DecodeItem
  \/ ReturnHtml

(***************************************************************************)
(* mastodon.py: create and preview_create.  The transport behind           *)
(* Mastodon.api is outside the program: what it answers is an input of the *)
(* call, and every request handed to it is recorded.                       *)
(***************************************************************************)
\* test_mastodon.py line 20, and Mastodon.__init__, lines 40-53
instance == "http://foo.com"

\* lines 20-22
API_STATUSES == "/api/v1/statuses"

API_FAVORITE(id) == "/api/v1/statuses/" \o id \o "/favourite"

API_REBLOG(id) == "/api/v1/statuses/" \o id \o "/reblog"

\* s.partition(c)[0]: the text before the first c, all of s when there is none
before(s, c) == IF Contains(s, c) THEN SubSeq(s, 1, IndexOf(s, c) - 1) ELSE s

\* s.partition(c)[2]: the text after the first c, "" when there is none
after(s, c) == IF Contains(s, c) THEN SubSeq(s, IndexOf(s, c) + 1, Len(s)) ELSE ""

\* s.rpartition(c)[2]: the text after the last c, all of s when there is none
after_last(s, c) ==
  IF Contains(s, c)
  THEN SubSeq(s, 1 + (CHOOSE i \in 1..Len(s) :
                       SubSeq(s, i, i) = c /\ \A j \in (i + 1)..Len(s) : SubSeq(s, j, j) # c),
              Len(s))
  ELSE s

NoneIfEmpty(s) == IF s = "" THEN None ELSE s

\* util.domain_from_link: the host of a link, None for a string with no host
domain_from_link(url) ==
  IF startswith(url, "http://") \/ startswith(url, "https://")
  THEN NoneIfEmpty(before(removeprefix(removeprefix(url, "http://"), "https://"), "/"))
  ELSE None

\* line 52: self.DOMAIN
self_DOMAIN == domain_from_link(instance)

\* the domain and the name of what follows tag: in a tag URI
TagParts(rest) ==
  IF before(rest, ":") = "" \/ after(rest, ":") = "" THEN <<>>
  ELSE <<before(before(rest, ":"), ","), after(rest, ":")>>

\* util.parse_tag_uri: <<domain, name>> of tag:domain[,year]:name; <<>> is None
parse_tag_uri(id) ==
  IF startswith(id, "tag:") THEN TagParts(removeprefix(id, "tag:")) ELSE <<>>

\* Source.base_id: the last segment of the url's path
base_id_of(url) == after_last(url, "/")

\* util.get_list: the value of a key as a list
get_list(obj, field) ==
  IF ~Has(obj, field) THEN <<>>
  ELSE IF IsList(obj[field]) THEN obj[field].list ELSE <<obj[field]>>

DomainFrom(parsed_id, url) ==
  IF parsed_id # <<>> THEN parsed_id[1] ELSE domain_from_link(url)

\* the domain a candidate target is on: of its tag URI id, else of its url
DomainOf(base) == DomainFrom(parse_tag_uri(Get(base, "id", "")), Get(base, "url", ""))

WithParsedId(base, parsed_id) ==
  IF parsed_id # <<>> THEN Put(base, "id", parsed_id[2]) ELSE base

\* the target with its id reduced to the instance's own id
WithBaseId(base) ==
  IF Truthy(Get(base, "id", None)) THEN WithParsedId(base, parse_tag_uri(base.id))
  ELSE IF Truthy(Get(base, "url", None)) THEN Put(base, "id", base_id_of(base.url))
  ELSE base

FirstOf(candidates, here) ==
  IF here = {} THEN EmptyDict
  ELSE WithBaseId(candidates[CHOOSE i \in here : \A j \in here : i <= j])

FirstOnInstance(candidates) ==
  FirstOf(candidates, {i \in DOMAIN candidates : DomainOf(candidates[i]) = self_DOMAIN})

\* Source.base_object, called on line 148: the first of the object's
\* inReplyTo, object and target entries that is on this instance, with its
\* id reduced to the instance's own id; {} when there is none.
base_object(obj) ==
  FirstOnInstance(get_list(obj, "inReplyTo") \o get_list(obj, "object")
                  \o get_list(obj, "target"))

\* Source._content_for_create, called on lines 162-163: the text to publish,
\* the name before the content when prefer_name, "" when the object has none
_content_for_create(obj, prefer_name) ==
  LET summary == Get(obj, "summary", "")
      name == Get(obj, "displayName", "")
      content == Get(obj, "content", "")
  IN IF prefer_name
     THEN FirstTruthy(<<name, summary, content, "">>)
     ELSE FirstTruthy(<<summary, content, name, "">>)

\* lines 37-38
TRUNCATE_TEXT_LENGTH == 500

\* Source.truncate, called on line 185, for a text with no link to append;
\* the ellipsis character is written as three dots
truncate(content) ==
  IF Len(content) <= TRUNCATE_TEXT_LENGTH THEN content
  ELSE SubSeq(content, 1, TRUNCATE_TEXT_LENGTH - 1) \o "..."

\* source.creation_result: the CreationResult tuple, None for what is not given
creation_result(content, description, abort, error_plain, error_html) ==
  [content |-> content, description |-> description, abort |-> abort,
   error_plain |-> error_plain, error_html |-> error_html]

HTTPError == [error |-> "HTTPError"]

api_retrying(path, json, answer) ==
  [requests |-> IF IsError(answer)
                THEN <<[path |-> path, json |-> json], [path |-> path, json |-> json]>>
                ELSE <<[path |-> path, json |-> json]>>,
   resp |-> answer]

\* lines 57-69: one POST; a failure status is raised again, any other answer
\* is parsed and returned
api(path, json, answer) ==
  [requests |-> <<[path |-> path, json |-> json]>>, resp |-> answer]

Created_without_type(call, type, base_url) ==
  [requests |-> call.requests,
   result |-> IF IsError(call.resp) THEN call.resp
              ELSE creation_result(
                     IF Has(call.resp, "url") THEN call.resp
                     ELSE Put(call.resp, "url", base_url),
                     None, FALSE, None, None)]

\* lines 205-206, 217-218, 269-272: the answer with its type and, when it
\* has no url of its own, the url of the base object
Created(call, type, base_url) ==
  LET resp == IF type = None THEN call.resp ELSE Put(call.resp, "type", type)
  IN [requests |-> call.requests,
      result |-> IF IsError(call.resp) THEN call.resp
                 ELSE creation_result(
                        IF Has(resp, "url") THEN resp
                        ELSE Put(resp, "url", base_url),
                        None, FALSE, None, None)]

NoRequest_aborting(result) ==
  [requests |-> <<>>, result |-> [result EXCEPT !.abort = TRUE]]

\* a return before any call of Mastodon.api, e.g. lines 173-176
NoRequest(result) == [requests |-> <<>>, result |-> result]

\* the link to the instance in the HTML error messages
InstanceLink == "<a href=\"" \o instance \o "\">" \o self_DOMAIN \o "</a>"

\* lines 178-272, with the text to publish in hand
Publish(type, verb, base_id, base_url, is_reply, is_rsvp, content, preview, answer) ==
  IF is_reply /\ ~Truthy(base_url)
  THEN NoRequest(creation_result(None, None, TRUE,
         "Could not find a toot on " \o self_DOMAIN \o " to reply to.",
         "Could not find a toot on " \o InstanceLink \o " to <a href=\"http://indiewebcamp.com/reply\">reply to</a>. Check that your post has the right <a href=\"http://indiewebcamp.com/comment\">in-reply-to</a> link."))
  ELSE IF type = "activity" /\ verb = "like"
  THEN IF ~Truthy(base_url)
       THEN NoRequest(creation_result(None, None, TRUE,
              "Could not find a toot on " \o self_DOMAIN \o " to favorite.",
              "Could not find a toot on " \o InstanceLink \o " to <a href=\"http://indiewebcamp.com/favorite\">favorite</a>. Check that your post has the right <a href=\"http://indiewebcamp.com/like\">u-like-of link</a>."))
       ELSE IF preview
       THEN NoRequest(creation_result(None,
              "<span class=\"verb\">favorite</span> <a href=\"" \o base_url \o "\">this toot</a>.",
              FALSE, None, None))
       ELSE Created(api(API_FAVORITE(base_id), None, answer), "like", base_url)
  ELSE IF type = "activity" /\ verb = "share"
  THEN IF ~Truthy(base_url)
       THEN NoRequest(creation_result(None, None, TRUE,
              "Could not find a toot to boost.",
              "Could not find a toot on " \o InstanceLink \o " to <a href=\"http://indiewebcamp.com/repost\">boost</a>. Check that your post has the right <a href=\"http://indiewebcamp.com/repost\">repost-of</a> link."))
       ELSE IF preview
       THEN NoRequest(creation_result(None,
              "<span class=\"verb\">boost</span> <a href=\"" \o base_url \o "\">this toot</a>.",
              FALSE, None, None))
       ELSE Created(api(API_REBLOG(base_id), None, answer), "repost", base_url)
  ELSE IF type \in {"note", "article"} \/ is_reply \/ is_rsvp
  THEN IF preview
       THEN NoRequest(creation_result(content,
              IF is_reply
              THEN "<span class=\"verb\">reply</span> to <a href=\"" \o base_url \o "\">this toot</a>:"
              ELSE "<span class=\"verb\">toot</span>:",
              FALSE, None, None))
       ELSE Created(api(API_STATUSES,
                        IF is_reply
                        THEN [status |-> content, in_reply_to_id |-> base_id]
                        ELSE [status |-> content],
                        answer), None, base_url)
  ELSE NoRequest(creation_result(None, None, FALSE,
         "Cannot publish type=" \o type \o ", verb=" \o verb \o " to Mastodon",
         "Cannot publish type=" \o type \o ", verb=" \o verb \o " to Mastodon"))

\* lines 167-176 and 185, with the text found in the object
WithContent(type, verb, base_id, base_url, is_reply, is_rsvp, found, preview, answer) ==
  IF ~Truthy(found) /\ ~(type = "activity" /\ ~is_rsvp)
  THEN NoRequest(creation_result(None, None, FALSE,
         "No content text found.", "No content text found."))
  ELSE Publish(type, verb, base_id, base_url, is_reply, is_rsvp,
               truncate(IF Truthy(found) THEN found ELSE verb), preview, answer)

\* lines 146-163, with the base object in hand
WithBase(obj, type, verb, base_id, base_url, is_reply, is_rsvp, preview, answer) ==
  WithContent(type, verb, base_id, base_url, is_reply, is_rsvp,
              _content_for_create(obj, ~(type = "note" \/ (Truthy(base_url) /\ is_reply))),
              preview, answer)

\* line 152
is_rsvp_verb(verb) == (Truthy(verb) /\ startswith(verb, "rsvp-")) \/ verb = "invite"

WithBaseObject(obj, base_obj, preview, answer) ==
  WithBase(obj, Get(obj, "objectType", None), Get(obj, "verb", None),
           Get(base_obj, "id", None), Get(base_obj, "url", None),
           Get(obj, "objectType", None) = "comment" \/ get_list(obj, "inReplyTo") # <<>>,
           is_rsvp_verb(Get(obj, "verb", None)), preview, answer)

\* lines 129-272
_create(obj, preview, answer) == WithBaseObject(obj, base_object(obj), preview, answer)

\* lines 95-110
create(obj, answer) == _create(obj, FALSE, answer)

\* lines 112-127
preview_create(obj, answer) == _create(obj, TRUE, answer)

(***************************************************************************)
(* Callers of create and preview_create: one call at a time, on any of the *)
(* objects below, against a transport that answers a request with a status *)
(* that has a url, with one that has none, or with a failure.              *)
(***************************************************************************)
OnInstance == "http://foo.com/@snarfed/123"

Elsewhere == "http://bad/@other/123"

ReplyTargets ==
  {[list |-> <<>>],
   [list |-> <<[url |-> "http://foo.com/@other/456"]>>],
   [list |-> <<[url |-> Elsewhere]>>],
   [list |-> <<[id |-> "tag:foo.com:789"]>>]}

ObjectTargets ==
  {[url |-> OnInstance], [url |-> Elsewhere],
   [id |-> "tag:foo.com,2019:789", url |-> OnInstance],
   [id |-> "tag:foo.com,2019:789"]}

\* a field that is absent, or present with one of the values
Opt(choices) == {<<>>} \cup {<<v>> : v \in choices}

Field(k, opt) == IF opt = <<>> THEN EmptyDict ELSE k :> opt[1]

\* every object with some of the fields
AnyFields ==
  {Update(Field("objectType", t), Update(Field("verb", v),
     Update(Field("content", c), Update(Field("displayName", n),
       Update(Field("inReplyTo", r), Field("object", o)))))) :
     t \in Opt({"note", "article", "comment", "activity", "person"}),
     v \in Opt({"like", "share", "rsvp-yes", "invite", "post"}),
     c \in Opt({"foo bar"}),
     n \in Opt({"a name"}),
     r \in Opt(ReplyTargets),
     o \in Opt(ObjectTargets)}

\* an activity has a verb
Toots ==
  {obj \in AnyFields : Get(obj, "objectType", None) = "activity" => Has(obj, "verb")}

Answers ==
  {HTTPError,
   [id |-> "123", url |-> "http://foo.com/@alice/123"],
   [id |-> "123"]}

Create ==
  /\ created = EmptyDict
  /\ \E obj \in Toots : \E answer \in Answers :
       LET call == create(obj, answer)
       IN /\ toot' = obj
          /\ previewing' = FALSE
          /\ requests' = call.requests
          /\ answered' = [i \in DOMAIN call.requests |-> answer]
          /\ created' = call.result
  /\ UNCHANGED <<nostrVars, mf2Vars, htmlVars>>

PreviewCreate ==
  /\ created = EmptyDict
  /\ \E obj \in Toots : \E answer \in Answers :
       LET call == preview_create(obj, answer)
       IN /\ toot' = obj
          /\ previewing' = TRUE
          /\ requests' = call.requests
          /\ answered' = [i \in DOMAIN call.requests |-> answer]
          /\ created' = call.result
  /\ UNCHANGED <<nostrVars, mf2Vars, htmlVars>>

ReturnMastodon ==
  /\ created # EmptyDict
  /\ toot' = EmptyDict
  /\ previewing' = FALSE
  /\ requests' = <<>>
  /\ answered' = <<>>
  /\ created' = EmptyDict
  /\ UNCHANGED <<nostrVars, mf2Vars, htmlVars>>

InitMastodon ==
  /\ toot = EmptyDict
  /\ previewing = FALSE
  /\ requests = <<>>
  /\ answered = <<>>
  /\ created = EmptyDict

NextMastodon ==
  \/ Create
  \/ PreviewCreate
  \/ ReturnMastodon


(***************************************************************************)
(* Callers of id_for: an event is built key by key and then hashed.        *)
(***************************************************************************)
FieldValues ==
  [pubkey     |-> {"ab", "cd"},
   created_at |-> {1700000000},
   kind       |-> {1},
   tags       |-> {<<<<"e", "ab">>>>},
   content    |-> {"hi", "+"},
   id         |-> {"ab"},
   sig        |-> {"ff"}]

SetField(k, v) ==
  /\ idOut = NoCall
  /\ k \notin keys(event)
  /\ event' = setitem(event, k, v)
  /\ UNCHANGED <<called, idOut>>
  /\ NoFromAs1 /\ NoToAs1
  /\ UNCHANGED <<mf2Vars, htmlVars, mastoVars>>

IdFor ==
  /\ idOut = NoCall
  /\ called' = event
  /\ idOut' = id_for(event)
  /\ event' = id_for_event(event)
  /\ UNCHANGED <<as1In, evOut, evIn, as1Out>>
  /\ UNCHANGED <<mf2Vars, htmlVars, mastoVars>>

NewEvent ==
  /\ idOut # NoCall
  /\ NoEvent
  /\ UNCHANGED <<as1In, evOut, evIn, as1Out>>
  /\ UNCHANGED <<mf2Vars, htmlVars, mastoVars>>

InitNostr ==
  /\ event = <<>>
  /\ called = <<>>
  /\ idOut = NoCall
  /\ as1In = EmptyDict
  /\ evOut = EmptyDict
  /\ evIn = EmptyDict
  /\ as1Out = EmptyDict

InitMf2 ==
  /\ mf2In = EmptyDict
  /\ objOut = EmptyDict
  /\ mf2pc = "idle"
  /\ parsed = EmptyDict
  /\ batchOut = EmptyDict

Init == InitNostr /\ InitMf2 /\ InitHtml /\ InitMastodon

NextNostr ==
  \/ \E k \in DOMAIN FieldValues : \E v \in FieldValues[k] : SetField(k, v)
  \/ IdFor
  \/ NewEvent
  \/ \E obj \in As1Objects : FromAs1(obj)
  \/ \E ev \in Events : ToAs1(ev)
  \/ ToAs1Back
  \/ FromAs1Back
  \/ ReturnNostr

SpecNostr == Init /\ [][NextNostr]_vars

SpecMf2 == Init /\ [][NextMf2]_vars

SpecHtml == Init /\ [][NextHtml]_vars

SpecMastodon == Init /\ [][NextMastodon]_vars

(***************************************************************************)
(* Claims about the event canonicalizer and the event codec.               *)
(***************************************************************************)
\* the order in which from_as1 sets the keys of the event it returns
EventKeyOrder == <<"id", "pubkey", "tags", "created_at", "kind", "content">>

RECURSIVE ItemsIn(_, _)
ItemsIn(d, order) ==
  IF order = <<>> THEN <<>>
  ELSE (IF Head(order) \in DOMAIN d THEN <<<<Head(order), d[Head(order)]>>>> ELSE <<>>)
       \o ItemsIn(d, Tail(order))

\* the items of a dict, in insertion order
items(d) == ItemsIn(d, EventKeyOrder)

IsId(result) == result \notin {NoCall, AssertionError}

\* C1: every event from_as1 returns with an id has that id equal to id_for of
\* its other five fields (content, created_at, kind, pubkey, tags).
C1_IdIsHashOfFields ==
  (~IsError(evOut) /\ Has(evOut, "id") /\ IsId(id_for(items(Without(evOut, {"id"}))))) =>
    evOut.id = id_for(items(Without(evOut, {"id"})))

OtherValue ==
  [pubkey |-> "ef", created_at |-> 1700000001, kind |-> 7,
   tags |-> <<<<"p", "ab">>>>, content |-> "hi!"]

Reordered(d, f) == [i \in DOMAIN d |-> d[f[i]]]

\* C3: the id is a function of the five field values only: it is the digest
\* of [0, pubkey, created_at, kind, tags, content] in that order whatever
\* order the keys were set in, and changing any single field changes the
\* serialization and the id.
C3_IdOfFieldValues ==
  IsId(idOut) =>
    LET e == id_for_event(called)
    IN /\ idOut = sha256_hexdigest(json_dumps(
            <<0, getitem(e, "pubkey"), getitem(e, "created_at"), getitem(e, "kind"),
              getitem(e, "tags"), getitem(e, "content")>>))
       /\ \A f \in Permutations(DOMAIN e) : id_for(Reordered(e, f)) = idOut
       /\ \A k \in EventKeys :
            /\ canonical(setitem(e, k, OtherValue[k])) # canonical(e)
            /\ id_for(setitem(e, k, OtherValue[k])) # idOut

C3_Witness ==
  /\ IsId(idOut)
  /\ Len(called) = 5
  /\ called[1][1] = "content"
  /\ called[5][1] = "pubkey"

\* C6: to_as1 maps kind 0 to person, 1 to note, 30023 to article, 6 to a
\* share activity and 7 to an activity whose verb is like for content "+",
\* dislike for "-" and react otherwise; react keeps the raw content, like and
\* dislike keep none.
C6_KindTable ==
  (evIn # EmptyDict /\ ~IsError(as1Out)) =>
    LET kind == evIn.kind
        content == Get(evIn, "content", "")
        type == Get(as1Out, "objectType", None)
        verb == Get(as1Out, "verb", None)
    IN /\ kind = 0 => type = "person" /\ verb = None
       /\ kind = 1 => type = "note" /\ verb = None
       /\ kind = 30023 => type = "article" /\ verb = None
       /\ kind = 6 => type = "activity" /\ verb = "share"
       /\ kind = 7 =>
            /\ type = "activity"
            /\ content = "+" => verb = "like" /\ ~Has(as1Out, "content")
            /\ content = "-" => verb = "dislike" /\ ~Has(as1Out, "content")
            /\ content \notin {"+", "-"} =>
                 verb = "react" /\ Get(as1Out, "content", "") = content

C6_Witness ==
  /\ evIn # EmptyDict
  /\ Get(evIn, "kind", 0) = 7
  /\ Get(evIn, "content", "") = "+1"
  /\ Get(as1Out, "verb", None) = "react"
  /\ Get(as1Out, "content", None) = "+1"

(***************************************************************************)
(* Claims about json_to_object.                                            *)
(***************************************************************************)
ExplicitTypes ==
  <<"h-as-rsvp", "h-as-share", "h-as-like", "h-as-comment", "h-as-reply",
    "h-as-location", "h-card">>

ExplicitTypeOf ==
  ("h-as-rsvp" :> "activity") @@ ("h-as-share" :> "activity")
  @@ ("h-as-like" :> "activity") @@ ("h-as-comment" :> "comment")
  @@ ("h-as-reply" :> "comment") @@ ("h-as-location" :> "place")
  @@ ("h-card" :> "person")

ExplicitVerbOf ==
  ("h-as-share" :> "share") @@ ("h-as-like" :> "like") @@ ("h-as-comment" :> None)
  @@ ("h-as-reply" :> None) @@ ("h-as-location" :> None) @@ ("h-card" :> None)

RsvpVerbs == {"rsvp-yes", "rsvp-no", "rsvp-maybe"}

Verbs == RsvpVerbs \cup {"post", "like", "dislike", "react", "share", "invite"}

Decoded == mf2pc = "decoded"

ItemHasType(t) == InSeq(t, mf2In.type)

ItemHasProp(p) == p \in DOMAIN mf2In.properties

NoExplicitType == \A i \in DOMAIN ExplicitTypes : ~ItemHasType(ExplicitTypes[i])

OutType == Get(objOut, "objectType", None)

OutVerb == Get(objOut, "verb", None)

\* the rsvp value json_to_object reads: the first one, '' when there is none
FirstRsvp ==
  IF mf2In.properties["rsvp"] = <<>> THEN "" ELSE mf2In.properties["rsvp"][1].str

\* the verb the tables give an RSVP: rsvp- and the item's rsvp value
RsvpVerbOfItem ==
  IF ItemHasProp("rsvp") /\ FirstRsvp # "" THEN "rsvp-" \o FirstRsvp ELSE None

\* C7: an explicit type token wins over property presence: the result's
\* (objectType, verb) is that of the first of h-as-rsvp, h-as-share, h-as-like,
\* h-as-comment, h-as-reply, h-as-location, h-card among the item's types,
\* whatever its properties; an item with h-as-rsvp and repost-of decodes to
\* an RSVP activity with verb rsvp-yes, rsvp-no or rsvp-maybe, never a share.
C7_ExplicitTypeWins ==
  Decoded =>
    /\ \A i \in DOMAIN ExplicitTypes :
         (/\ ItemHasType(ExplicitTypes[i])
          /\ \A j \in 1..(i - 1) : ~ItemHasType(ExplicitTypes[j]))
         => /\ OutType = ExplicitTypeOf[ExplicitTypes[i]]
            /\ OutVerb = IF ExplicitTypes[i] = "h-as-rsvp" THEN RsvpVerbOfItem
                         ELSE ExplicitVerbOf[ExplicitTypes[i]]
    /\ (ItemHasType("h-as-rsvp") /\ ItemHasProp("repost-of"))
         => OutType = "activity" /\ OutVerb \in RsvpVerbs

VerbIffActivity(obj) ==
  obj # EmptyDict =>
    /\ Has(obj, "verb") <=> Get(obj, "objectType", None) = "activity"
    /\ Has(obj, "verb") => obj.verb \in Verbs

\* C9: every non-empty object json_to_object or to_as1 returns carries a verb
\* if and only if its objectType is activity, and the verb is one of the
\* closed vocabulary, also for an item with the h-as-rsvp token or an rsvp
\* property whose value is missing or empty.
C9_VerbIffActivity ==
  /\ Decoded => VerbIffActivity(objOut)
  /\ ~IsError(as1Out) => VerbIffActivity(as1Out)

\* the target list of a decoded activity
TargetList(obj) ==
  IF ~Has(obj, "object") THEN <<>>
  ELSE IF IsList(obj.object) THEN obj.object.list
  ELSE <<obj.object>>

RECURSIVE TargetsFound(_)
\* the targets of the values of a property, an embedded item decoded and a
\* URL as {url}, without the empty ones
TargetsFound(vals) ==
  IF vals = <<>> THEN <<>>
  ELSE LET v == Head(vals)
           t == IF IsStr(v) THEN (IF v.str = "" THEN EmptyDict ELSE [url |-> v.str])
                ELSE json_to_object(v)
       IN (IF t = EmptyDict THEN <<>> ELSE <<t>>) \o TargetsFound(Tail(vals))

PropTargets(p) == IF ItemHasProp(p) THEN TargetsFound(mf2In.properties[p]) ELSE <<>>

AllTargets ==
  PropTargets("like") \o PropTargets("like-of") \o PropTargets("repost")
  \o PropTargets("repost-of") \o PropTargets("in-reply-to") \o PropTargets("invitee")

FirstIndex(s, x) == CHOOSE i \in DOMAIN s : s[i] = x /\ \A j \in 1..(i - 1) : s[j] # x

\* C10: the target list of a decoded activity holds every distinct target
\* found under like, like-of, repost, repost-of, in-reply-to and invitee, no
\* two equal targets, in first-seen order over those properties in that
\* order; a URL given under like and like-of (repost and repost-of) is one
\* target.
C10_TargetsDeduplicated ==
  (Decoded /\ OutType = "activity") =>
    LET targets == TargetList(objOut)
    IN /\ \A i \in DOMAIN AllTargets : InSeq(AllTargets[i], targets)
       /\ \A i \in DOMAIN targets : InSeq(targets[i], AllTargets)
       /\ \A i, j \in DOMAIN targets : i # j => targets[i] # targets[j]
       /\ \A i, j \in DOMAIN targets :
            i < j => FirstIndex(AllTargets, targets[i]) < FirstIndex(AllTargets, targets[j])

C10_Witness ==
  /\ Decoded /\ OutType = "activity"
  /\ ItemHasProp("like") /\ ItemHasProp("like-of")
  /\ InSeq([url |-> "http://a/1"], PropTargets("like"))
  /\ InSeq([url |-> "http://a/1"], PropTargets("like-of"))
  /\ Len(TargetList(objOut)) = 3
  /\ Len(AllTargets) > 3

(***************************************************************************)
(* Claims about the effects of object_to_json and json_to_html on their    *)
(* arguments.                                                              *)
(***************************************************************************)
\* C4: object_to_json leaves the object passed to it unchanged, its inReplyTo
\* list included, and every encoding of the same object returns the same item.
C4_ObjectUnchanged ==
  itemsOut # <<>> =>
    /\ asObj = asBuilt
    /\ \A i \in DOMAIN itemsOut : itemsOut[i] = itemsOut[1]

\* C5: json_to_html leaves the item passed to it unchanged, its name values
\* included, and every rendering of the same item returns the same HTML.
C5_ItemUnchanged ==
  htmlOut # <<>> =>
    /\ mf2Item = mf2Built
    /\ \A i \in DOMAIN htmlOut : htmlOut[i] = htmlOut[1]

(***************************************************************************)
(* Claims about the round trip through object_to_json and json_to_object.  *)
(***************************************************************************)
Canonical == asBuilt \in CanonicalObjects

RoundTripped == objBack # <<>> /\ Canonical

\* C11: json_to_object(object_to_json(x)) is x, for every canonical note,
\* article, person, like, share and RSVP x: the same objectType and verb, id,
\* url, displayName, author or actor, and the same targets in the same order
C11_RoundTrip ==
  RoundTripped => objBack[1] = trim_nulls_object(asBuilt)

(***************************************************************************)
(* Claims about render_content.                                            *)
(***************************************************************************)
RECURSIVE Linked(_, _, _, _)
\* the content from offset i on, where the span of each of the tags at the
\* indexes `linked` is an anchor around the span's own text
Linked(content, tags, linked, i) ==
  IF i >= Len(content) THEN ""
  ELSE LET starts == {j \in linked : tags[j].startIndex = i}
           inside == {j \in linked : /\ tags[j].startIndex < i
                                      /\ i < tags[j].startIndex + tags[j].length}
           tag == tags[CHOOSE j \in starts : TRUE]
       IN (IF starts # {}
           THEN "<a href=\"" \o tag.url \o "\">"
                \o SubSeq(content, i + 1, i + tag.length) \o "</a>"
           ELSE IF inside # {} THEN ""
           ELSE SubSeq(content, i + 1, i + 1))
          \o Linked(content, tags, linked, i + 1)

\* the tags that are the first with their id, and those without an id
FirstWithId(tags) ==
  {j \in DOMAIN tags :
     \/ ~Truthy(Get(tags[j], "id", None))
     \/ \A k \in 1..(j - 1) : Get(tags[k], "id", None) # tags[j].id}

MentionsRendered == rendered # <<>> /\ asBuilt \in MentionPosts

\* C12 as stated: the rendered content is the content with every mention
\* span, given in any order, replaced by an anchor around the span's text,
\* every other character once and in order, and newlines made line breaks
\* after the splicing
C12_EverySpanLinked ==
  MentionsRendered =>
    rendered[1].html = replace(Linked(asBuilt.content, asBuilt.tags,
                                      DOMAIN asBuilt.tags, 0),
                               "\n", "<br />\n")

\* C12: the same, for the spans of the mention tags that are the first with
\* their id: a later mention with the id of an earlier tag is dropped and
\* its span is left as text
C12_FirstWithIdLinked ==
  MentionsRendered =>
    rendered[1].html = replace(Linked(asBuilt.content, asBuilt.tags,
                                      FirstWithId(asBuilt.tags), 0),
                               "\n", "<br />\n")

\* three mentions out of order, one of them dropped, around a newline
C12_Witness ==
  /\ MentionsRendered
  /\ asBuilt.content = "hi @bob\n@al"
  /\ Len(asBuilt.tags) = 3
  /\ asBuilt.tags[1].startIndex > asBuilt.tags[3].startIndex
  /\ FirstWithId(asBuilt.tags) # DOMAIN asBuilt.tags
  /\ rendered[1].html =
       "<a href=\"http://a/hi\">hi</a> @bob<br />\n<a href=\"http://a/bob\">@al</a>"

\* where `sub` starts in s
Positions(s, sub) ==
  {i \in 1..(Len(s) - Len(sub) + 1) : SubSeq(s, i, i + Len(sub) - 1) = sub}

\* what each trailing block holds: a preview, a hashtag link, a mention or
\* other tag link, the location card
BlockMarks ==
  <<{"class=\"link\""}, {"class=\"p-category\""},
    {"class=\"u-mention\"", "class=\"tag\""}, {"class=\"p-location "}>>

BlocksRendered == rendered # <<>> /\ asBuilt \in BlockPosts

\* C13: in the rendered content the previews come first, then the hashtag
\* links, then the mention and other tag links, and the location card last
C13_TrailingBlockOrder ==
  BlocksRendered =>
    \A a, b \in DOMAIN BlockMarks :
      a < b =>
        \A first \in BlockMarks[a], then \in BlockMarks[b] :
          \A i \in Positions(rendered[1].html, first),
             j \in Positions(rendered[1].html, then) : i < j

(***************************************************************************)
(* Claims about json_to_html.                                              *)
(***************************************************************************)
\* the calls of json_to_html on the item that returned HTML
Htmls == {i \in DOMAIN htmlOut : htmlOut[i] # KeyError}

\* C14: the HTML of an item holds no literal None or null: a slot without
\* data, the name of an RSVP without a name included, is rendered empty
C14_NoLiteralNone ==
  \A i \in Htmls :
    /\ Positions(htmlOut[i], "None") = {}
    /\ Positions(htmlOut[i], "null") = {}

(***************************************************************************)
(* Claims about html_to_activities.                                        *)
(***************************************************************************)
\* whether the type of the item has one of the tokens
HasType(item, types) == \E i \in DOMAIN types : InSeq(types[i], item.type)

RECURSIVE ChildrenOf(_)
\* the items one level below the items of a level, from left to right
ChildrenOf(level) ==
  IF level = <<>> THEN <<>>
  ELSE Get(Head(level), "children", <<>>) \o ChildrenOf(Tail(level))

RECURSIVE FirstByLevel(_, _)
\* the leftmost item with one of the types in the first level that has one,
\* {} when no level has one
FirstByLevel(level, types) ==
  IF level = <<>> THEN EmptyDict
  ELSE LET matches == SelectSeq(level, LAMBDA item : HasType(item, types))
       IN IF matches # <<>> THEN matches[1]
          ELSE FirstByLevel(ChildrenOf(level), types)

\* the items html_to_activities decodes: the children of the first h-feed by
\* level, or the items at the top
BatchOf(doc) ==
  LET hfeed == FirstByLevel(doc.items, <<"h-feed">>)
  IN IF hfeed # EmptyDict THEN Get(hfeed, "children", <<>>) ELSE doc.items

Malformed(item) == IsList(item.properties)

BatchDecoded == parsed # EmptyDict /\ batchOut # EmptyDict

\* C15: a malformed item does not abort the batch: html_to_activities
\* returns, and what it returns holds every well-formed item decoded
C15_BatchIsolation ==
  BatchDecoded =>
    /\ ~IsError(batchOut)
    /\ \A i \in DOMAIN BatchOf(parsed) :
         ~Malformed(BatchOf(parsed)[i]) =>
           \E j \in DOMAIN batchOut.activities :
             batchOut.activities[j].object = json_to_object(BatchOf(parsed)[i])


(***************************************************************************)
(* Claims about create and preview_create.                                 *)
(***************************************************************************)
IsReply == Get(toot, "objectType", None) = "comment" \/ get_list(toot, "inReplyTo") # <<>>

IsLike == Get(toot, "objectType", None) = "activity" /\ Get(toot, "verb", None) = "like"

IsShare == Get(toot, "objectType", None) = "activity" /\ Get(toot, "verb", None) = "share"

Returned == created # EmptyDict

\* the messages that name what the object tried to do to the missing toot
CouldNotFind ==
  (IF IsReply THEN {"Could not find a toot on foo.com to reply to."} ELSE {})
  \cup (IF IsLike THEN {"Could not find a toot on foo.com to favorite."} ELSE {})
  \cup (IF IsShare THEN {"Could not find a toot on foo.com to boost.",
                         "Could not find a toot to boost."} ELSE {})

Unfound == Returned /\ (IsReply \/ IsLike \/ IsShare) /\ ~Has(base_object(toot), "url")

IsResult == /\ ~IsError(created)
            /\ DOMAIN created = {"content", "description", "abort", "error_plain", "error_html"}
            /\ \/ created.content # None
               \/ created.description # None
               \/ created.error_plain # None

\* C17: preview_create returns a result, with preview content, a description
\* or an error, and no request reaches the API; create issues at most one
\* request, and exactly one when the transport fails: it does not try again.
C17_PreviewSilentCreateOnce ==
  Returned => /\ previewing => requests = <<>> /\ IsResult
              /\ ~previewing => Len(requests) <= 1
              /\ IsError(created) => ~previewing /\ Len(requests) = 1

C17_Witness ==
  /\ Returned /\ previewing /\ requests = <<>>
  /\ toot = [objectType |-> "note", content |-> "foo bar",
             inReplyTo |-> [list |-> <<[url |-> "http://foo.com/@other/456"]>>]]
  /\ created = creation_result("foo bar",
       "<span class=\"verb\">reply</span> to <a href=\"http://foo.com/@other/456\">this toot</a>:",
       FALSE, None, None)

Base == base_object(toot)

BaseFound == Has(Base, "id") /\ Has(Base, "url")

HasText == Has(toot, "content") \/ Has(toot, "displayName")

\* the result of a create that went through, for what the transport answered
Success(type) ==
  ~IsError(answered[1]) =>
    /\ created = creation_result(created.content, None, FALSE, None, None)
    /\ Get(created.content, "type", None) = type
    /\ created.content.url = IF Has(answered[1], "url") THEN answered[1].url ELSE Base.url
    /\ \A k \in DOMAIN answered[1] \ {"url"} : created.content[k] = answered[1][k]

\* C18: create of a like or share whose base object has an id and a url
\* issues one POST to the favourite or reblog path of that id and returns the
\* answer with type like or repost and the answer's url, or the base
\* object's url when the answer has none; create of a reply that is neither
\* posts one status whose in_reply_to_id is the base object's id.
C18_CreatePostsToBase ==
  Returned /\ ~previewing /\ BaseFound =>
    /\ IsLike => /\ requests = <<[path |-> API_FAVORITE(Base.id), json |-> None]>>
                 /\ Success("like")
    /\ IsShare => /\ requests = <<[path |-> API_REBLOG(Base.id), json |-> None]>>
                  /\ Success("repost")
    /\ IsReply /\ ~IsLike /\ ~IsShare =>
         /\ HasText => requests # <<>>
         /\ requests # <<>> => /\ Len(requests) = 1
                               /\ requests[1].path = API_STATUSES
                               /\ requests[1].json.in_reply_to_id = Base.id

C18_Witness ==
  /\ Returned /\ ~previewing
  /\ toot = [objectType |-> "activity", verb |-> "like",
             object |-> [id |-> "tag:foo.com,2019:789", url |-> OnInstance]]
  /\ requests = <<[path |-> "/api/v1/statuses/789/favourite", json |-> None]>>
  /\ answered = <<[id |-> "123"]>>
  /\ created.content = [id |-> "123", type |-> "like", url |-> OnInstance]

\* the object is none of what Mastodon publishes: a like, a share, a note, an
\* article, a reply, an RSVP or an invite
NoPublishRule ==
  /\ ~IsLike /\ ~IsShare /\ ~IsReply
  /\ Get(toot, "objectType", None) \notin {"note", "article"}
  /\ ~is_rsvp_verb(Get(toot, "verb", None))

Contains_text(s, sub) ==
  \E i \in 1..(Len(s) - Len(sub) + 1) : SubSeq(s, i, i + Len(sub) - 1) = sub

\* C21: an object with content that Mastodon has no publish rule for makes
\* create and preview_create return, with no exception and no request to the
\* API, a result with abort=False and an error that names its type and verb.
C21_UnsupportedIsNonFatal ==
  Returned /\ Has(toot, "content") /\ NoPublishRule =>
    /\ requests = <<>>
    /\ ~IsError(created)
    /\ created.abort = FALSE
    /\ created.content = None
    /\ Contains_text(created.error_plain, "type=" \o Get(toot, "objectType", None))
    /\ Contains_text(created.error_plain, "verb=" \o Get(toot, "verb", None))
    /\ created.error_html = created.error_plain

C21_Witness ==
  /\ Returned /\ ~previewing
  /\ toot = [objectType |-> "person", verb |-> "post", content |-> "foo bar"]
  /\ requests = <<>>
  /\ created = creation_result(None, None, FALSE,
       "Cannot publish type=person, verb=post to Mastodon",
       "Cannot publish type=person, verb=post to Mastodon")

(***************************************************************************)
(* Claims about the content block of json_to_html.                         *)
(***************************************************************************)

\* the opening tag of a content block with the given classes (HENTRY)
ContentDiv(classes) == "  <div class=\"" \o classes \o "\">\n"

\* where `sub` starts in `s`
Starts(s, sub) ==
  {i \in 1..(Len(s) - Len(sub) + 1) : SubSeq(s, i, i + Len(sub) - 1) = sub}

ContentClasses == {"e-content p-name", "e-content", ""}

\* the classes of the first content block of the html: the block of the item
\* itself, since the items nested in it are rendered after it
BlockClasses(html) ==
  LET at == [c \in ContentClasses |-> Starts(html, ContentDiv(c))]
      found == {c \in ContentClasses : at[c] # {}}
      First(c) == CHOOSE i \in at[c] : \A j \in at[c] : i <= j
  IN IF found = {} THEN None
     ELSE CHOOSE c \in found : \A d \in found : First(c) <= First(d)

\* the item json_to_html rendered first is an entry, and it was rendered
RenderedEntry ==
  /\ htmlOut # <<>>
  /\ htmlOut[1] \notin {KeyError, ""}
  /\ mf2Built.type[1] # "h-card"

\* the rendered content is not empty: the item has content, or a target of a
\* like or of a repost that is rendered in the content
HasRenderedContent(item) ==
  LET content == Get(first_props(item.properties), "content", EmptyDict)
  IN \/ Truthy(Get(content, "html", ""))
     \/ Truthy(Get(content, "value", ""))
     \/ Get(item.properties, "like-of", <<>>) # <<>>
     \/ Get(item.properties, "repost-of", <<>>) # <<>>

NoExplicitName(item) == Get(item.properties, "name", <<>>) = <<>>

\* lines 391-401 give the item a name
DefaultNamed(item) ==
  \/ IsRsvp(item)
  \/ Get(item.properties, "invitee", <<>>) # <<>>

\* C22, as claimed: the content block has the class e-content exactly when the
\* rendered content is not empty, and the class p-name as well exactly when
\* the content is not empty and the item has no explicit name, an rsvp and an
\* invitation without a name included; it has no class when the content is
\* empty.
C22_ContentClasses ==
  RenderedEntry =>
    BlockClasses(htmlOut[1]) =
      IF ~HasRenderedContent(mf2Built) THEN ""
      ELSE IF NoExplicitName(mf2Built) THEN "e-content p-name"
      ELSE "e-content"

\* C22, amended: the content block has the class e-content exactly when the
\* rendered content is not empty, and the class p-name as well exactly when
\* the content is not empty and the item has no name after the default name
\* of an rsvp or of an invitation was set; it has no class when the content is
\* empty.
C22_ContentClassesAfterDefaultName ==
  RenderedEntry =>
    BlockClasses(htmlOut[1]) =
      IF ~HasRenderedContent(mf2Built) THEN ""
      ELSE IF NoExplicitName(mf2Built) /\ ~DefaultNamed(mf2Built)
        THEN "e-content p-name"
      ELSE "e-content"

\* an rsvp with content and without a name was rendered: its content is not
\* the name
C22_Witness ==
  /\ RenderedEntry
  /\ IsRsvp(mf2Built)
  /\ NoExplicitName(mf2Built)
  /\ HasRenderedContent(mf2Built)
  /\ BlockClasses(htmlOut[1]) = "e-content"

\* a plain entry with content and without a name was rendered: its content is
\* the name
C22_PlainWitness ==
  /\ RenderedEntry
  /\ ~DefaultNamed(mf2Built)
  /\ NoExplicitName(mf2Built)
  /\ HasRenderedContent(mf2Built)
  /\ BlockClasses(htmlOut[1]) = "e-content p-name"

(***************************************************************************)
(* Claims about the targets of a like or of a repost in json_to_html.      *)
(***************************************************************************)

MFTYPES == {"like", "repost"}

\* the targets of the item that are bare urls
BareTargets(item, mftype) ==
  SelectSeq(Get(item.properties, mftype \o "-of", <<>>), LAMBDA t : ~IsDict(t))

\* the start of the inline anchor of a bare url (lines 423-425)
BareAnchor(mftype) == "<a class=\"u-" \o mftype \o " u-" \o mftype \o "-of\" href=\""

\* the end of an inline anchor that carries the phrase
PhraseEnd(mftype) == "\">" \o mftype \o "s this.</a>"

NumPhrases(html) ==
  Cardinality(Starts(html, PhraseEnd("like")))
    + Cardinality(Starts(html, PhraseEnd("repost")))

HasBareTarget(item) == \E mftype \in MFTYPES : BareTargets(item, mftype) # <<>>

\* C23: an item with bare urls among its like-of and repost-of targets is
\* rendered with one inline anchor per bare url, and exactly one of these
\* anchors carries the phrase, whatever the number, the mix and the order of
\* the citations and the bare urls.
C23_OnePhrase ==
  RenderedEntry /\ HasBareTarget(mf2Built) =>
    /\ \A mftype \in MFTYPES :
         Cardinality(Starts(htmlOut[1], BareAnchor(mftype)))
           = Len(BareTargets(mf2Built, mftype))
    /\ NumPhrases(htmlOut[1]) = 1

(***************************************************************************)
(* Claims about find_first_entry.                                          *)
(***************************************************************************)

\* the types a caller may ask for
RequestedTypes == {<<"h-feed">>, <<"h-entry">>, <<"h-event", "h-entry">>, <<"h-other">>}

\* C24: find_first_entry returns the first item in breadth-first order whose
\* type has one of the requested tokens, the leftmost one of the smallest
\* depth, and nothing when no item has one; html_to_activities decodes the
\* children of the h-feed found so, and the items at the top when there is
\* no h-feed.
C24_BreadthFirst ==
  BatchDecoded =>
    /\ \A types \in RequestedTypes :
         find_first_entry(parsed.items, types) = FirstByLevel(parsed.items, types)
    /\ LET batch == BatchOf(parsed)
           decoded == [i \in DOMAIN batch |-> [object |-> json_to_object(batch[i])]]
       IN IF \E i \in DOMAIN batch : IsError(decoded[i].object)
          THEN IsError(batchOut)
          ELSE batchOut = [activities |-> decoded]

\* a page with an h-feed below its first item and an h-feed at the top after
\* it was decoded: the activities are the children of the h-feed at the top
C24_Witness ==
  /\ BatchDecoded
  /\ Len(parsed.items) = 2
  /\ ~HasType(parsed.items[1], <<"h-feed">>)
  /\ FirstByLevel(Get(parsed.items[1], "children", <<>>), <<"h-feed">>) # EmptyDict
  /\ HasType(parsed.items[2], <<"h-feed">>)
  /\ batchOut = [activities |-> <<[object |-> json_to_object(Leaf("top"))]>>]

(***************************************************************************)
(* Claims about an event decoded by to_as1 and encoded again by from_as1.  *)
(***************************************************************************)

\* from_as1 was called on the object that to_as1 returned for evIn
EncodedBack ==
  /\ evIn # EmptyDict /\ as1In # EmptyDict
  /\ Has(evIn, "id")
  /\ ~IsError(as1Out)
  /\ as1In = WithTargetObjects(evIn, as1Out)

\* hex strings, the empty one and the ids of the event among them
HexStrings == {"", "0", "e", "ab", "cd", "ae5", "deadbeef", "0123456789abcdef"}

\* the forms of an id that to_as1 writes
IdForms == {"nostr:note", "nostr:nevent", "nostr:npub"}

\* C25: id_from_as1 of "nostr:note" + h, "nostr:nevent" + h and "nostr:npub"
\* + h is h for every hex string h, and it returns an empty or missing id
\* unchanged; so from_as1(to_as1(e)) has the id and the pubkey of e when e is
\* a note, an article or a profile event.
C25_IdsRoundTrip ==
  EncodedBack /\ evIn.kind \in {0, 1, 30023} =>
    /\ \A h \in HexStrings \cup {evIn.id, evIn.pubkey} : \A form \in IdForms :
         id_from_as1(form \o h) = h
    /\ id_from_as1(None) = None
    /\ id_from_as1("") = ""
    /\ ~IsError(evOut)
    /\ Get(evOut, "id", None) = evIn.id
    /\ Get(evOut, "pubkey", None) = evIn.pubkey

(***************************************************************************)
(* Claims about an object encoded by from_as1 and decoded again by to_as1. *)
(***************************************************************************)
\* to_as1 was called on the event that from_as1 returned for as1In
DecodedBack == as1In # EmptyDict /\ evIn # EmptyDict /\ evIn = evOut

\* a reaction to a target that has an id
Reacted == as1In \in As1Reactions /\ Has(as1In.object, "id")

ReactionEvent ==
  /\ ~IsError(evOut)
  /\ evOut.kind = 7
  /\ Get(evOut, "content", None) =
       (IF as1In.verb = "like" THEN "+"
        ELSE IF as1In.verb = "dislike" THEN "-"
        ELSE Get(as1In, "content", None))
  /\ evOut.tags = <<<<"e", id_from_as1(as1In.object.id)>>>>

SameTarget ==
  /\ ~IsError(as1Out)
  /\ id_from_as1(Get(as1Out, "object", None)) = id_from_as1(as1In.object.id)

\* a react whose own content is one of the two reserved reaction texts
ReservedReact == as1In.verb = "react" /\ Get(as1In, "content", None) \in {"+", "-"}

\* C19 as stated: a like, dislike or react encodes to a kind-7 event with
\* content "+", "-" or its own content and the single tag ["e", target id],
\* and decoding that event gives the same verb, for react the same content,
\* and an object with the same target id, for every reaction content.
C19_ReactionRoundTrip ==
  Reacted =>
    /\ ReactionEvent
    /\ DecodedBack =>
         /\ SameTarget
         /\ as1Out.verb = as1In.verb
         /\ as1In.verb = "react" =>
              Get(as1Out, "content", None) = Get(as1In, "content", None)

\* C19 as amended: the same, for every reaction content but "+" and "-"; a
\* react whose content is "+" or "-" decodes to a like or a dislike with no
\* content.
C19_ReactionRoundTripUnreserved ==
  Reacted =>
    /\ ReactionEvent
    /\ DecodedBack =>
         /\ SameTarget
         /\ ~ReservedReact =>
              /\ as1Out.verb = as1In.verb
              /\ as1In.verb = "react" =>
                   Get(as1Out, "content", None) = Get(as1In, "content", None)
         /\ ReservedReact =>
              /\ as1Out.verb = (IF as1In.content = "+" THEN "like" ELSE "dislike")
              /\ ~Has(as1Out, "content")

C19_Witness ==
  /\ Reacted /\ DecodedBack
  /\ as1In.verb = "react" /\ Get(as1In, "content", None) = "+1"
  /\ evOut.content = "+1" /\ evOut.tags = <<<<"e", "cd">>>>
  /\ as1Out.verb = "react" /\ as1Out.content = "+1"
  /\ as1Out.object = "nostr:neventcd"

\* a note or article in reply to a target that has an id
Replied ==
  /\ as1In \in As1Posts
  /\ Has(as1In, "inReplyTo")
  /\ Has(as1In.inReplyTo, "id")

HasTag(ev, tag) == \E i \in DOMAIN ev.tags : ev.tags[i] = tag

\* C20: a note or article with inReplyTo encodes to a kind 1 or 30023 event
\* with the tag ["e", target id, relay hint, "reply"] and, when the target
\* has an author id, the tag ["p", that author's pubkey]; decoding the event
\* sets inReplyTo to the same target id.
C20_ReplyRoundTrip ==
  Replied =>
    /\ ~IsError(evOut)
    /\ evOut.kind = (IF as1In.objectType = "note" THEN 1 ELSE 30023)
    /\ HasTag(evOut, <<"e", id_from_as1(as1In.inReplyTo.id), "TODO relay", "reply">>)
    /\ Has(as1In.inReplyTo, "author") =>
         HasTag(evOut, <<"p", id_from_as1(as1In.inReplyTo.author.id)>>)
    /\ DecodedBack =>
         /\ ~IsError(as1Out)
         /\ id_from_as1(Get(as1Out, "inReplyTo", None)) = id_from_as1(as1In.inReplyTo.id)
====
